---- MODULE Spec2Model ----
(***************************************************************************)
(* PGN Branch Buddy: the PGN-to-tree pipeline of parsePgnService.ts        *)
(* (cleanPgn, the PGN grammar, buildTree with the move validator) and the  *)
(* flattener of treeToVariations.ts.                                       *)
(*                                                                         *)
(* A text is a sequence of one-character strings.  A position is a record  *)
(* (board, side to move, move number) over the squares that the moves of   *)
(* the alphabet AllSans can touch; on these squares Legal and Play follow  *)
(* the rules of chess for pawn pushes, knight jumps and queen slides.      *)
(***************************************************************************)
EXTENDS Integers, Sequences, FiniteSets, TLC

VARIABLES
  pc,               \* position in handlePGNLoaded / parseGame
  pgn,              \* the raw text given to parseGame
  sanitized,        \* cleanPgn(pgn)
  ast,              \* games[0].moves
  stack,            \* the activations of buildTree, innermost last
  nodes,            \* the Node objects, nodes[1] is the root
  origin,           \* per node: the activation and token it was made from
  lines,            \* per activation: the move it is a variation of
  err,              \* the error parseGame throws
  variations,       \* the list returned by extractVariationsFromTree
  variationCounter, \* the module-level counter of treeToVariations.ts
  calls,            \* the earlier calls of handlePGNLoaded and what they gave
  inv,              \* invocations of extractVariationsFromTree that overlap
  variation,        \* the Variation given to createTrainingPositions
  userColor,        \* the side the user plays
  positions,        \* the list returned by createTrainingPositions
  training,         \* the state, Chess instance and timers of TrainingMode
  page,             \* the state of the Index page
  scan              \* the index and the tokens of a running tokenizePGN

\* The variables of the training components.
ui == <<variation, userColor, positions, training, page>>

vars == <<pc, pgn, sanitized, ast, stack, nodes, origin, lines, err,
          variations, variationCounter, calls, inv, ui, scan>>

\* No training component is mounted and no tokenizePGN is running.
Unmounted ==
  /\ variation = <<>>
  /\ userColor = ""
  /\ positions = <<>>
  /\ training = <<>>
  /\ page = <<>>
  /\ scan = <<>>

(***************************************************************************)
(* Bounds of the input families.                                           *)
(***************************************************************************)
MaxMoves == 3

MaxTail == 3

MaxLex == 4

MaxDotLex == 4

\* The number of calls of handlePGNLoaded in a row.
MaxCalls == 3

\* The number of moves and of children per node in the trees given to
\* the flattener.
MaxNodes == 5

MaxChildren == 3

\* The number of moves in the trees of two invocations that overlap.
MaxOverlapNodes == 3

(***************************************************************************)
(* Generic helpers.                                                        *)
(***************************************************************************)
RECURSIVE Flatten(_)
Flatten(ss) == IF ss = <<>> THEN <<>> ELSE Head(ss) \o Flatten(Tail(ss))

Range(s) == {s[i] : i \in 1..Len(s)}

(***************************************************************************)
(* The move validator (chess.js) on the fragment of chess that the moves   *)
(* of AllSans reach from the initial position.  Only the squares these     *)
(* moves can touch are kept.  No move of the fragment captures, gives      *)
(* check or is ambiguous, so legality is decided by the piece, its path    *)
(* and the side to move.                                                   *)
(***************************************************************************)
PawnFiles == {"c", "d", "e"}

FileIdx == [f \in {"b", "c", "d", "e", "f", "g", "h"} |->
              CASE f = "b" -> 2 [] f = "c" -> 3 [] f = "d" -> 4
                [] f = "e" -> 5 [] f = "f" -> 6 [] f = "g" -> 7
                [] OTHER -> 8]

Sq == (PawnFiles \X (2..7))
        \cup {<<"g", 1>>, <<"f", 3>>, <<"b", 8>>, <<"d", 1>>,
              <<"g", 4>>, <<"h", 5>>}

NoSq == <<"-", 0>>

InitialBoard ==
  [s \in Sq |->
     CASE s[1] \in PawnFiles /\ s[2] = 2 -> "P"
       [] s[1] \in PawnFiles /\ s[2] = 7 -> "p"
       [] s = <<"g", 1>> -> "N"
       [] s = <<"b", 8>> -> "n"
       [] s = <<"d", 1>> -> "Q"
       [] OTHER -> ""]

InitialPos == [board |-> InitialBoard, turn |-> "w", num |-> 1]

AllSans == {"e4", "d4", "c4", "e5", "d5", "c5", "Nf3", "Nc6", "Qh5", "Qxe4"}

GAME_RESULTS == {"1-0", "0-1", "1/2-1/2", "*"}

SanInfo(san) ==
  CASE san = "e4" -> [kind |-> "pawn", to |-> <<"e", 4>>]
    [] san = "d4" -> [kind |-> "pawn", to |-> <<"d", 4>>]
    [] san = "c4" -> [kind |-> "pawn", to |-> <<"c", 4>>]
    [] san = "e5" -> [kind |-> "pawn", to |-> <<"e", 5>>]
    [] san = "d5" -> [kind |-> "pawn", to |-> <<"d", 5>>]
    [] san = "c5" -> [kind |-> "pawn", to |-> <<"c", 5>>]
    [] san = "Nf3" -> [kind |-> "knight", to |-> <<"f", 3>>]
    [] san = "Nc6" -> [kind |-> "knight", to |-> <<"c", 6>>]
    [] san = "Qh5" -> [kind |-> "queen", to |-> <<"h", 5>>]
    [] OTHER -> [kind |-> "none", to |-> NoSq]

\* The square a pawn of the side to move pushes from to reach `to`.
PawnFrom(pos, to) ==
  LET f == to[1]
      r == to[2]
      b == pos.board
  IN  IF pos.turn = "w"
      THEN IF b[<<f, r - 1>>] = "P" THEN <<f, r - 1>>
           ELSE IF r = 4 /\ b[<<f, 2>>] = "P" /\ b[<<f, 3>>] = ""
                THEN <<f, 2>> ELSE NoSq
      ELSE IF b[<<f, r + 1>>] = "p" THEN <<f, r + 1>>
           ELSE IF r = 5 /\ b[<<f, 7>>] = "p" /\ b[<<f, 6>>] = ""
                THEN <<f, 7>> ELSE NoSq

Abs(x) == IF x < 0 THEN -x ELSE x

\* The squares from which a knight of the side to move jumps to `to`.
KnightFroms(pos, to) ==
  {s \in Sq :
     /\ pos.board[s] = (IF pos.turn = "w" THEN "N" ELSE "n")
     /\ LET df == Abs(FileIdx[s[1]] - FileIdx[to[1]])
            dr == Abs(s[2] - to[2])
        IN  (df = 1 /\ dr = 2) \/ (df = 2 /\ dr = 1)}

\* The white queen reaches h5 from d1 over e2, f3 and g4; no other queen
\* move of the alphabet is ever possible (no queen stands on a line with
\* e4, and the black queen never stands on a line with h5).
QueenFrom(pos, to) ==
  IF /\ pos.turn = "w"
     /\ to = <<"h", 5>>
     /\ pos.board[<<"d", 1>>] = "Q"
     /\ pos.board[<<"e", 2>>] = ""
     /\ pos.board[<<"f", 3>>] = ""
     /\ pos.board[<<"g", 4>>] = ""
  THEN <<"d", 1>> ELSE NoSq

MoveFrom(pos, san) ==
  LET info == SanInfo(san)
  IN  IF info.kind = "none" \/ pos.board[info.to] # "" THEN NoSq
      ELSE CASE info.kind = "pawn" -> PawnFrom(pos, info.to)
             [] info.kind = "knight" ->
                  IF Cardinality(KnightFroms(pos, info.to)) = 1
                  THEN CHOOSE s \in KnightFroms(pos, info.to) : TRUE
                  ELSE NoSq
             [] OTHER -> QueenFrom(pos, info.to)

\* nextBoard.move(san, { strict: true }) succeeds.
Legal(pos, san) == MoveFrom(pos, san) # NoSq

\* The position after a legal move.
Play(pos, san) ==
  LET from == MoveFrom(pos, san)
      to == SanInfo(san).to
  IN  [board |-> [s \in Sq |->
                    IF s = from THEN ""
                    ELSE IF s = to THEN pos.board[from]
                    ELSE pos.board[s]],
       turn |-> IF pos.turn = "w" THEN "b" ELSE "w",
       num |-> IF pos.turn = "b" THEN pos.num + 1 ELSE pos.num]

(***************************************************************************)
(* Texts.  Chars gives the characters of a lexeme; Text concatenates the   *)
(* lexemes of an input.                                                    *)
(***************************************************************************)
Chars(lx) ==
  CASE lx = "e4" -> <<"e", "4">>
    [] lx = "d4" -> <<"d", "4">>
    [] lx = "c4" -> <<"c", "4">>
    [] lx = "e5" -> <<"e", "5">>
    [] lx = "d5" -> <<"d", "5">>
    [] lx = "c5" -> <<"c", "5">>
    [] lx = "Nf3" -> <<"N", "f", "3">>
    [] lx = "Nc6" -> <<"N", "c", "6">>
    [] lx = "Qh5" -> <<"Q", "h", "5">>
    [] lx = "Qxe4" -> <<"Q", "x", "e", "4">>
    [] lx = "1." -> <<"1", ".">>
    [] lx = "2." -> <<"2", ".">>
    [] lx = "1..." -> <<"1", ".", ".", ".">>
    [] lx = "...." -> <<".", ".", ".", ".">>
    [] lx = "1-0" -> <<"1", "-", "0">>
    [] lx = "0-1" -> <<"0", "-", "1">>
    [] lx = "1/2-1/2" -> <<"1", "/", "2", "-", "1", "/", "2">>
    [] lx = "broken" -> <<"b", "r", "o", "k", "e", "n">>
    [] lx = "comment" -> <<"c", "o", "m", "m", "e", "n", "t">>
    [] OTHER -> <<lx>>

Text(lexemes) == Flatten([i \in 1..Len(lexemes) |-> Chars(lexemes[i])])

Digit == {"0", "1", "2", "3", "4", "5", "6", "7", "8", "9"}

DigitChar(d) ==
  CASE d = 0 -> "0" [] d = 1 -> "1" [] d = 2 -> "2" [] d = 3 -> "3"
    [] d = 4 -> "4" [] d = 5 -> "5" [] d = 6 -> "6" [] d = 7 -> "7"
    [] d = 8 -> "8" [] OTHER -> "9"

\* String(n): the decimal digits of a number.
RECURSIVE NumberToString(_)
NumberToString(n) ==
  IF n < 10 THEN <<DigitChar(n)>>
  ELSE NumberToString(n \div 10) \o <<DigitChar(n % 10)>>

\* First index >= i whose character is not in `cs` (Len(t)+1 when none).
RECURSIVE SkipSet(_, _, _)
SkipSet(t, i, cs) ==
  IF i <= Len(t) /\ t[i] \in cs THEN SkipSet(t, i + 1, cs) ELSE i

\* First index >= i whose character is c (0 when none).
RECURSIVE IndexOf(_, _, _)
IndexOf(t, i, c) ==
  IF i > Len(t) THEN 0
  ELSE IF t[i] = c THEN i ELSE IndexOf(t, i + 1, c)

Slice(t, a, b) == IF a > b THEN <<>> ELSE SubSeq(t, a, b)

(***************************************************************************)
(* cleanPgn, one operator per replace call.                                *)
(***************************************************************************)
\* raw.replace(/\{[^}]*\}/gms, "")
RECURSIVE StripComments(_, _)
StripComments(t, i) ==
  IF i > Len(t) THEN <<>>
  ELSE IF t[i] = "{" /\ IndexOf(t, i + 1, "}") # 0
       THEN StripComments(t, IndexOf(t, i + 1, "}") + 1)
       ELSE <<t[i]>> \o StripComments(t, i + 1)

\* .replace(/\$\d+/g, "")
RECURSIVE StripNags(_, _)
StripNags(t, i) ==
  IF i > Len(t) THEN <<>>
  ELSE IF t[i] = "$" /\ SkipSet(t, i + 1, Digit) > i + 1
       THEN StripNags(t, SkipSet(t, i + 1, Digit))
       ELSE <<t[i]>> \o StripNags(t, i + 1)

\* First index p >= i where \d+\. matches, with no "}" in between
\* (0 when none): the lazy [^}]*? of the second replace.
RECURSIVE MoveNumberAt(_, _)
MoveNumberAt(t, i) ==
  IF i > Len(t) \/ t[i] = "}" THEN 0
  ELSE IF /\ t[i] \in Digit
          /\ SkipSet(t, i, Digit) <= Len(t)
          /\ t[SkipSet(t, i, Digit)] = "."
       THEN i
       ELSE MoveNumberAt(t, i + 1)

\* Index of the last character of \d+\.(?:\.\.)? matched at p.
MoveNumberEnd(t, p) ==
  LET dot == SkipSet(t, p, Digit)
  IN  IF dot + 2 <= Len(t) /\ t[dot + 1] = "." /\ t[dot + 2] = "."
      THEN dot + 2 ELSE dot

\* What the replacer (_, m) => m returns for a match at index i (1-based)
\* whose move number starts at p: the pattern has no capture group, so the
\* second argument of the callback is the offset of the match.
Replacement(t, i, p) == NumberToString(i - 1)

\* out.replace(/\{[^}]*?(?:\d+\.(?:\.\.)?)/gms, (_, m) => m)
RECURSIVE KeepMoveNumber(_, _)
KeepMoveNumber(t, i) ==
  IF i > Len(t) THEN <<>>
  ELSE IF t[i] = "{" /\ MoveNumberAt(t, i + 1) # 0
       THEN Replacement(t, i, MoveNumberAt(t, i + 1))
              \o KeepMoveNumber(t, MoveNumberEnd(t, MoveNumberAt(t, i + 1)) + 1)
       ELSE <<t[i]>> \o KeepMoveNumber(t, i + 1)

\* The slip of leaving an unterminated comment in the text.
StripToEofForgotten(t, i) == Slice(t, i, Len(t))

\* out.replace(/\{[^}]*$/gms, ""): the texts of the model hold no line
\* break, so $ is the end of the text.
RECURSIVE StripToEof(_, _)
StripToEof(t, i) ==
  IF i > Len(t) THEN <<>>
  ELSE IF t[i] = "{" /\ IndexOf(t, i + 1, "}") = 0 THEN <<>>
       ELSE <<t[i]>> \o StripToEof(t, i + 1)

\* out.replace(/\.{4,}/g, "...")
RECURSIVE CollapseDots(_, _)
CollapseDots(t, i) ==
  IF i > Len(t) THEN <<>>
  ELSE IF t[i] = "." /\ SkipSet(t, i, {"."}) - i >= 4
       THEN <<".", ".", ".">> \o CollapseDots(t, SkipSet(t, i, {"."}))
       ELSE <<t[i]>> \o CollapseDots(t, i + 1)

\* out.replace(/\s{2,}/g, " ")
RECURSIVE ShrinkSpaces(_, _)
ShrinkSpaces(t, i) ==
  IF i > Len(t) THEN <<>>
  ELSE IF t[i] = " " /\ SkipSet(t, i, {" "}) - i >= 2
       THEN <<" ">> \o ShrinkSpaces(t, SkipSet(t, i, {" "}))
       ELSE <<t[i]>> \o ShrinkSpaces(t, i + 1)

\* .trim()
RECURSIVE TrimEnd(_)
TrimEnd(t) ==
  IF t # <<>> /\ t[Len(t)] = " " THEN TrimEnd(SubSeq(t, 1, Len(t) - 1))
  ELSE t

Trim(t) == TrimEnd(Slice(t, SkipSet(t, 1, {" "}), Len(t)))

cleanPgn(raw) ==
  LET s1 == StripNags(StripComments(raw, 1), 1)
      s2 == StripToEof(KeepMoveNumber(s1, 1), 1)
      s3 == CollapseDots(s2, 1)
  IN  Trim(ShrinkSpaces(s3, 1))

(***************************************************************************)
(* The PGN grammar of @mliebelt/pgn-parser (start rule "games") on         *)
(* sanitised text.  A move of the syntax tree is a record                  *)
(* [san, variations]; the variations written after a move are kept in      *)
(* that move's `variations`, each one a list of moves.  A result marker    *)
(* is kept as a move whose san is the marker.                              *)
(*   pgn       = ws moveNumber? ws halfMove ws nags? ws variation? pgn?    *)
(*             / ws endGame ws                                             *)
(*   nags      = "$" integer ws nags?                                      *)
(*   variation = "(" pgn ")" ws variation?                                 *)
(*   moveNumber = integer whiteSpace* dot*                                 *)
(***************************************************************************)
IsPrefixAt(t, i, w) ==
  /\ i + Len(w) - 1 <= Len(t)
  /\ \A k \in 1..Len(w) : t[i + k - 1] = w[k]

\* halfMove: the move of the alphabet written at index i ("" when none).
MatchSan(t, i) ==
  IF \E san \in AllSans : IsPrefixAt(t, i, Chars(san))
  THEN CHOOSE san \in AllSans : IsPrefixAt(t, i, Chars(san))
  ELSE ""

\* The slip of a grammar without the endGame alternative.
EndGameForgotten(t, i) == ""

\* endGame: the result marker written at index i ("" when none).
MatchResult(t, i) ==
  IF \E r \in GAME_RESULTS : IsPrefixAt(t, i, Chars(r))
  THEN CHOOSE r \in GAME_RESULTS : IsPrefixAt(t, i, Chars(r))
  ELSE ""

SkipWs(t, i) == SkipSet(t, i, {" "})

\* moveNumber?: the index after an optional move number at i.
SkipMoveNumber(t, i) ==
  IF i <= Len(t) /\ t[i] \in Digit
  THEN SkipSet(t, SkipWs(t, SkipSet(t, i, Digit)), {"."})
  ELSE i

\* nags?: the index after the "$n" annotations written at i.
RECURSIVE SkipNags(_, _)
SkipNags(t, i) ==
  IF i <= Len(t) /\ t[i] = "$" /\ SkipSet(t, i + 1, Digit) > i + 1
  THEN SkipNags(t, SkipWs(t, SkipSet(t, i + 1, Digit)))
  ELSE i

RECURSIVE ParsePgnRule(_, _), ParseVariationRule(_, _)
ParsePgnRule(t, i) ==
  LET start == SkipWs(t, i)
      at == SkipWs(t, SkipMoveNumber(t, start))
      san == MatchSan(t, at)
  IN  IF san # ""
      THEN LET vr == ParseVariationRule(t,
                       SkipNags(t, SkipWs(t, at + Len(Chars(san)))))
               rest == ParsePgnRule(t, vr.pos)
           IN  [ok |-> TRUE,
                moves |-> <<[san |-> san, variations |-> vr.vars]>>
                            \o (IF rest.ok THEN rest.moves ELSE <<>>),
                pos |-> IF rest.ok THEN rest.pos ELSE vr.pos]
      ELSE IF MatchResult(t, start) # ""
           THEN [ok |-> TRUE,
                 moves |-> <<[san |-> MatchResult(t, start),
                              variations |-> <<>>]>>,
                 pos |-> SkipWs(t, start + Len(Chars(MatchResult(t, start))))]
           ELSE [ok |-> FALSE, moves |-> <<>>, pos |-> i]

ParseVariationRule(t, i) ==
  IF i <= Len(t) /\ t[i] = "("
  THEN LET inner == ParsePgnRule(t, i + 1)
       IN  IF inner.ok /\ inner.pos <= Len(t) /\ t[inner.pos] = ")"
           THEN LET more == ParseVariationRule(t, SkipWs(t, inner.pos + 1))
                IN  [vars |-> <<inner.moves>> \o more.vars, pos |-> more.pos]
           ELSE [vars |-> <<>>, pos |-> i]
  ELSE [vars |-> <<>>, pos |-> i]

\* parsePGN(sanitized, { startRule: "games" }): the moves of the first
\* game, no game at all for a blank text, or a syntax error.
parsePGN(t) ==
  LET g == ParsePgnRule(t, 1)
  IN  IF SkipWs(t, 1) > Len(t) THEN [kind |-> "nogame", moves |-> <<>>]
      ELSE IF g.ok /\ SkipWs(t, g.pos) > Len(t)
           THEN [kind |-> "games", moves |-> g.moves]
           ELSE [kind |-> "syntax", moves |-> <<>>]

(***************************************************************************)
(* The inputs.  RavInputs: every movetext of at most MaxMoves moves of     *)
(* GenSans, with variations nested in every possible way.  CommentInputs:  *)
(* a main line followed by a "{" and at most MaxTail lexemes with no "}".  *)
(* Examples: the texts of the test suite and longer hand-written games.    *)
(***************************************************************************)
GenSans == {"e4", "d5", "Nf3", "d4"}

RECURSIVE LinesOfSize(_), MovesOfSize(_), VarListsOfSize(_)
MovesOfSize(k) ==
  {[san |-> s, variations |-> vs] : s \in GenSans, vs \in VarListsOfSize(k - 1)}

VarListsOfSize(j) ==
  IF j = 0 THEN {<<>>}
  ELSE UNION {{<<l>> \o rest : l \in LinesOfSize(a),
                               rest \in VarListsOfSize(j - a)} : a \in 1..j}

LinesOfSize(n) ==
  UNION {{<<m>> \o rest :
            m \in MovesOfSize(k),
            rest \in (IF n = k THEN {<<>>} ELSE LinesOfSize(n - k))}
         : k \in 1..n}

RECURSIVE RenderLine(_), RenderVariations(_)
RenderVariations(vs) ==
  IF vs = <<>> THEN <<>>
  ELSE <<" ", "(">> \o RenderLine(Head(vs)) \o <<")">>
         \o RenderVariations(Tail(vs))

RenderLine(moves) ==
  IF moves = <<>> THEN <<>>
  ELSE Chars(Head(moves).san) \o RenderVariations(Head(moves).variations)
         \o (IF Tail(moves) = <<>> THEN <<>> ELSE <<" ">>)
         \o RenderLine(Tail(moves))

RavInputs == {RenderLine(l) : l \in UNION {LinesOfSize(n) : n \in 1..MaxMoves}}

TailLex == {"w", " ", "1.", "1...", "e5", "Qxe4"}

RECURSIVE SeqsUpTo(_, _)
SeqsUpTo(S, n) ==
  IF n = 0 THEN {<<>>}
  ELSE {<<>>} \cup {<<x>> \o r : x \in S, r \in SeqsUpTo(S, n - 1)}

\* No move is written directly against the next one.
Spaced(tl) ==
  \A i \in 1..(Len(tl) - 1) : ~(tl[i] \in AllSans /\ tl[i + 1] \in AllSans)

Tails == {Text(tl) : tl \in {x \in SeqsUpTo(TailLex, MaxTail) : Spaced(x)}}

Prefixes == {<<>>, Text(<<"1.", "e4", " ">>), Text(<<"1.", "e4">>),
             Text(<<"e4", " ", "d5", " ", "Nf3">>)}

CommentInputs == {p \o <<"{">> \o t : p \in Prefixes, t \in Tails}

ExSeparates ==
  Text(<<"1.", "e4", " ", "(", "1.", "d4", " ", "d5", " ", "2.", "c4", ")",
         " ", "1...", "c5", " ", "(", "1...", "e5", " ", "2.", "Nf3", " ",
         "Nc6", ")">>)

ExMainLine ==
  Text(<<"1.", "e4", " ", "e5", " ", "2.", "Nf3", " ", "Nc6">>)

ExIllegal ==
  Text(<<"1.", "e4", " ", "e5", " ", "2.", "Qh5", " ", "Qxe4">>)

ExResult == Text(<<"1.", "e4", " ", "e5", " ", "1-0">>)

ExBroken ==
  Text(<<"1.", "e4", " ", "{", "broken", " ", "comment", " ", "1...", " ",
         "e5", " ", "2.", "Nf3", " ", "*">>)

\* 2.d4 is an alternative to 2.Nf3, and ...d4 is also playable after it.
ExSideLine ==
  Text(<<"e4", " ", "d5", " ", "Nf3", " ", "(", "d4", ")", " ", "Nc6", " ",
         "c4">>)

ExNested ==
  Text(<<"e4", " ", "d5", " ", "Nf3", " ", "(", "d4", " ", "e5", " ", "(",
         "c5", ")", ")", " ", "Nc6">>)

ExTwoSideLines ==
  Text(<<"e4", " ", "d5", " ", "Nf3", " ", "(", "d4", ")", " ", "(", "c4",
         ")", " ", "Nc6">>)

ExUnclosed == Text(<<"e4", " ", "(", "d4">>)

\* A game whose comment holds parentheses and NAGs, with a NAG outside.
ExStudy ==
  Text(<<"1.", "e4", " ", "e5", " ", "{", " ", "w", " ", "(", "w", " ", "(",
         "w", ")", ")", " ", "$", "6", " ", "$", "1", "5", " ", "}", " ",
         "2.", "Nf3", " ", "$", "1", " ", "Nc6", " ", "*">>)

Examples == {ExSeparates, ExMainLine, ExIllegal, ExResult, ExBroken,
             ExSideLine, ExNested, ExTwoSideLines, ExUnclosed, ExStudy}

\* SanitizerInputs: every text of at most MaxLex lexemes of SanLex, with at
\* most one move in it.
SanLex == {"{", "}", "$", "1", ".", "(", "e4", " "}

OneMove(tl) == Cardinality({i \in 1..Len(tl) : tl[i] \in AllSans}) <= 1

SanitizerInputs ==
  {Text(tl) : tl \in {x \in SeqsUpTo(SanLex, MaxLex) : OneMove(x)}}

\* DotInputs: every text of at most MaxDotLex lexemes of DotLex, with at
\* most one move in it.  ExDots is the move number "2....." before a move.
DotLex == {"1", ".", "....", "{", "$", "e4"}

DotInputs ==
  {Text(tl) : tl \in {x \in SeqsUpTo(DotLex, MaxDotLex) : OneMove(x)}}

ExDots ==
  Text(<<"1.", "e4", " ", "e5", " ", "2", "....", ".", "Nf3", " ", "*">>)

\* A move number with four dots in an unterminated comment, a digit next.
ExDotsInComment == Text(<<"{", "1", "....", "1", "e4">>)

\* Texts with no move: a result marker alone, a comment alone.
ExOnlyResult == Text(<<"*">>)

ExOnlyComment == Text(<<"{", "w", " ", "e4", "}">>)

\* ExSideLine with move numbers.
ExNumbered ==
  Text(<<"1.", "e4", " ", "d5", " ", "2.", "Nf3", " ", "(", "2.", ".", ".",
         "d4", ")", " ", "2.", ".", ".", "Nc6", " ", "3", ".", "c4">>)

\* A ")" at depth 0, and a "(" that is never closed before depth-0 moves.
ExStrayClose == Text(<<"e4", " ", ")", " ", "d5">>)

ExStrayOpen == Text(<<"e4", " ", "(", " ", "d5", " ", "Nf3">>)

Inputs ==
  RavInputs \cup CommentInputs \cup SanitizerInputs \cup DotInputs
    \cup Examples
    \cup {ExDots, ExDotsInComment, ExOnlyResult, ExOnlyComment, ExNumbered,
          ExStrayClose, ExStrayOpen}

\* The texts given to handlePGNLoaded when it is called several times.
CallInputs == {ExMainLine, ExSideLine, ExNumbered, ExTwoSideLines,
               ExIllegal, ExResult, ExUnclosed, ExOnlyComment}

(***************************************************************************)
(* parseGame and buildTree.                                                *)
(***************************************************************************)
NoError == [kind |-> "none", san |-> ""]

\* sanFrom(token)
sanFrom(m) == m.san

\* { fen: board.fen(), move: san, children: [] }
NewNode(board, san) == [fen |-> board, move |-> san, children |-> <<>>]

\* The board and the parent that buildTree's recursive call receives for a
\* variation of the move just appended: new Chess(nextBoard.fen()), node.
\* The slip of handing the variation the board before the move.
VariationBoardBeforeMove(board, nextBoard) == board

VariationBoard(board, nextBoard) == nextBoard

VariationParent(currentParent, node) == node

\* The slip of leaving out board.load(nextBoard.fen()).
BoardNotLoaded(board, nextBoard) == board

\* The board of the enclosing level after board.load(nextBoard.fen()).
LoadedBoard(board, nextBoard) == nextBoard

Top == stack[Len(stack)]

Frame(moves, board, parent, line) ==
  [moves |-> moves, i |-> 1, board |-> board, parent |-> parent,
   currentParent |-> parent, node |-> 0, nextBoard |-> board, v |-> 0,
   line |-> line]

SetTop(f) == [stack EXCEPT ![Len(stack)] = f]

Init ==
  /\ pgn \in Inputs
  /\ pc = "start"
  /\ sanitized = <<>>
  /\ ast = <<>>
  /\ stack = <<>>
  /\ nodes = <<>>
  /\ origin = <<>>
  /\ lines = <<>>
  /\ err = NoError
  /\ variations = <<>>
  /\ variationCounter = 0
  /\ calls = <<>>
  /\ inv = <<>>
  /\ Unmounted

\* const sanitized = cleanPgn(pgn)
Clean ==
  /\ pc = "start"
  /\ sanitized' = cleanPgn(pgn)
  /\ pc' = "cleaned"
  /\ UNCHANGED <<pgn, ast, stack, nodes, origin, lines, err, variations,
                 variationCounter, calls, inv, ui, scan>>

\* parsePGN returned a game: the root is made and buildTree is entered.
ParseGames ==
  /\ pc = "cleaned"
  /\ parsePGN(sanitized).kind = "games"
  /\ ast' = parsePGN(sanitized).moves
  /\ nodes' = <<NewNode(InitialPos, "")>>
  /\ origin' = <<[line |-> 0, first |-> FALSE, nvars |-> 0]>>
  /\ lines' = <<[after |-> 0, depth |-> 0]>>
  /\ stack' = <<Frame(parsePGN(sanitized).moves, InitialPos, 1, 1)>>
  /\ pc' = "build"
  /\ UNCHANGED <<pgn, sanitized, err, variations, variationCounter, calls,
                 inv, ui, scan>>

\* parsePGN returned no game: "No game object returned" is thrown.
ParseNoGame ==
  /\ pc = "cleaned"
  /\ parsePGN(sanitized).kind = "nogame"
  /\ err' = [kind |-> "nogame", san |-> ""]
  /\ pc' = "failed"
  /\ UNCHANGED <<pgn, sanitized, ast, stack, nodes, origin, lines,
                 variations, variationCounter, calls, inv, ui, scan>>

\* parsePGN threw a syntax error, which parseGame rethrows.
ParseSyntaxError ==
  /\ pc = "cleaned"
  /\ parsePGN(sanitized).kind = "syntax"
  /\ err' = [kind |-> "syntax", san |-> ""]
  /\ pc' = "failed"
  /\ UNCHANGED <<pgn, sanitized, ast, stack, nodes, origin, lines,
                 variations, variationCounter, calls, inv, ui, scan>>

AtToken == pc = "build" /\ Top.v = 0 /\ Top.i <= Len(Top.moves)

\* if (!san || GAME_RESULTS.includes(san)) continue
SkipToken ==
  /\ AtToken
  /\ sanFrom(Top.moves[Top.i]) \in GAME_RESULTS
  /\ stack' = SetTop([Top EXCEPT !.i = @ + 1])
  /\ UNCHANGED <<pc, pgn, sanitized, ast, nodes, origin, lines, err,
                 variations, variationCounter, calls, inv, ui, scan>>

\* nextBoard.move(san) fails: throw new Error(`Illegal SAN detected`)
IllegalMove ==
  /\ AtToken
  /\ sanFrom(Top.moves[Top.i]) \notin GAME_RESULTS
  /\ ~Legal(Top.board, sanFrom(Top.moves[Top.i]))
  /\ err' = [kind |-> "illegal", san |-> sanFrom(Top.moves[Top.i])]
  /\ stack' = <<>>
  /\ pc' = "failed"
  /\ UNCHANGED <<pgn, sanitized, ast, nodes, origin, lines, variations,
                 variationCounter, calls, inv, ui, scan>>

\* The move is legal: its node is pushed to currentParent.children.
AppendMove ==
  /\ AtToken
  /\ sanFrom(Top.moves[Top.i]) \notin GAME_RESULTS
  /\ Legal(Top.board, sanFrom(Top.moves[Top.i]))
  /\ LET san == sanFrom(Top.moves[Top.i])
         id == Len(nodes) + 1
     IN  /\ nodes' = Append([nodes EXCEPT ![Top.currentParent].children =
                                             Append(@, id)],
                            NewNode(Top.board, san))
         /\ origin' = Append(origin,
                             [line |-> Top.line,
                              first |-> Top.currentParent = Top.parent,
                              nvars |-> Len(Top.moves[Top.i].variations)])
         /\ stack' = SetTop([Top EXCEPT !.node = id,
                                        !.nextBoard = Play(Top.board, san),
                                        !.v = 1])
  /\ UNCHANGED <<pc, pgn, sanitized, ast, lines, err, variations,
                 variationCounter, calls, inv, ui, scan>>

\* for (const variation of m.variations) buildTree(variation, ..., node)
EnterVariation ==
  /\ pc = "build"
  /\ Top.v >= 1
  /\ Top.v <= Len(Top.moves[Top.i].variations)
  /\ stack' = Append(SetTop([Top EXCEPT !.v = @ + 1]),
                     Frame(Top.moves[Top.i].variations[Top.v],
                           VariationBoard(Top.board, Top.nextBoard),
                           VariationParent(Top.currentParent, Top.node),
                           Len(lines) + 1))
  /\ lines' = Append(lines, [after |-> Top.node,
                             depth |-> lines[Top.line].depth + 1])
  /\ UNCHANGED <<pc, pgn, sanitized, ast, nodes, origin, err, variations,
                 variationCounter, calls, inv, ui, scan>>

\* board.load(nextBoard.fen()); currentParent = node
ContinueMainLine ==
  /\ pc = "build"
  /\ Top.v >= 1
  /\ Top.v > Len(Top.moves[Top.i].variations)
  /\ stack' = SetTop([Top EXCEPT !.board = LoadedBoard(Top.board,
                                                       Top.nextBoard),
                                 !.currentParent = Top.node,
                                 !.i = @ + 1,
                                 !.v = 0])
  /\ UNCHANGED <<pc, pgn, sanitized, ast, nodes, origin, lines, err,
                 variations, variationCounter, calls, inv, ui, scan>>

\* The loop of an activation ends; the outermost one returns the root.
Return ==
  /\ pc = "build"
  /\ Top.v = 0
  /\ Top.i > Len(Top.moves)
  /\ stack' = SubSeq(stack, 1, Len(stack) - 1)
  /\ pc' = IF Len(stack) = 1 THEN "done" ELSE "build"
  /\ UNCHANGED <<pgn, sanitized, ast, nodes, origin, lines, err, variations,
                 variationCounter, calls, inv, ui, scan>>

(***************************************************************************)
(* treeToVariations.ts on a tree ns (ns[1] is the root).                   *)
(***************************************************************************)
RECURSIVE extractMainLine(_, _)
extractMainLine(ns, n) ==
  IF ns[n].children = <<>> THEN <<>>
  ELSE <<ns[ns[n].children[1]].move>> \o extractMainLine(ns, ns[n].children[1])

\* The slip of not following the branch below its first move.
collectOnlyFirstMove(ns, n) == <<ns[n].move>>

RECURSIVE collectMovesFromBranch(_, _)
collectMovesFromBranch(ns, n) ==
  <<ns[n].move>>
    \o (IF ns[n].children = <<>> THEN <<>>
        ELSE collectMovesFromBranch(ns, ns[n].children[1]))

\* The slip of not pushing the move of the main-line child.
NextPathNotPushed(pathMoves, move) == pathMoves

\* newPath: pathMoves with the move of the main-line child pushed.
NextPath(pathMoves, move) ==
  IF move # "" THEN Append(pathMoves, move) ELSE pathMoves

\* The move lists that extractSideVariations pushes, in order.
RECURSIVE extractSideVariations(_, _, _)
extractSideVariations(ns, n, pathMoves) ==
  IF ns[n].children = <<>> THEN <<>>
  ELSE [i \in 1..(Len(ns[n].children) - 1) |->
          pathMoves \o collectMovesFromBranch(ns, ns[n].children[i + 1])]
         \o extractSideVariations(ns, ns[n].children[1],
                NextPath(pathMoves, ns[ns[n].children[1]].move))

\* The move lists that one invocation pushes, the main line first.
PushedMoves(ns) ==
  (IF extractMainLine(ns, 1) = <<>> THEN <<>>
   ELSE <<extractMainLine(ns, 1)>>)
    \o extractSideVariations(ns, 1, <<>>)

\* The slip of not setting the counter to 0 when an invocation begins.
CounterKept(counter) == counter

\* variationCounter = 0
ResetCounter(counter) == 0

\* `variation-${n}`
VariationId(n) == <<"variation-", n>>

\* `Variation ${n}`
VariationName(n) == <<"Variation ", n>>

\* The k-th Variation pushed by an invocation on ns, the counter being n
\* after its increment.
PushedVariation(ns, k, n) ==
  [id |-> VariationId(n),
   name |-> IF k = 1 THEN <<"Main Line">> ELSE VariationName(n),
   moves |-> PushedMoves(ns)[k],
   mainline |-> k = 1]

\* The list returned when the invocation runs with nothing in between;
\* `counter` is the module-level counter when it begins.
extractVariationsFromTree(ns, counter) ==
  [k \in 1..Len(PushedMoves(ns)) |->
     PushedVariation(ns, k, ResetCounter(counter) + k)]

\* handlePGNLoaded: const parsedVariations = extractVariationsFromTree(root)
FlattenTree ==
  /\ pc = "done"
  /\ variations' = extractVariationsFromTree(nodes, variationCounter)
  /\ variationCounter' =
       ResetCounter(variationCounter) + Len(PushedMoves(nodes))
  /\ pc' = "flat"
  /\ UNCHANGED <<pgn, sanitized, ast, stack, nodes, origin, lines, err,
                 calls, inv, ui, scan>>

Next ==
  \/ Clean
  \/ ParseGames
  \/ ParseNoGame
  \/ ParseSyntaxError
  \/ SkipToken
  \/ IllegalMove
  \/ AppendMove
  \/ EnterVariation
  \/ ContinueMainLine
  \/ Return
  \/ FlattenTree

Spec == Init /\ [][Next]_vars

(***************************************************************************)
(* handlePGNLoaded is called again with another text.  What the finished   *)
(* call gave is kept in `calls`; the locals of the new call are fresh and   *)
(* the module-level counter of treeToVariations.ts is what the finished    *)
(* call left.                                                              *)
(***************************************************************************)
\* What a finished call gave: the error thrown, or the tree and the list.
Outcome ==
  [err |-> err,
   nodes |-> IF pc = "failed" THEN <<>> ELSE nodes,
   variations |-> variations]

NextCall(text) ==
  /\ pc \in {"failed", "flat"}
  /\ calls' = Append(calls, [pgn |-> pgn, outcome |-> Outcome])
  /\ pgn' = text
  /\ pc' = "start"
  /\ sanitized' = <<>>
  /\ ast' = <<>>
  /\ stack' = <<>>
  /\ nodes' = <<>>
  /\ origin' = <<>>
  /\ lines' = <<>>
  /\ err' = NoError
  /\ variations' = <<>>
  /\ UNCHANGED <<variationCounter, inv, ui, scan>>

\* The text with its balanced comments and its NAGs deleted.
Deleted(t) == StripNags(StripComments(t, 1), 1)

\* The second call is given the first text without comments and NAGs.
ReparseDeleted == calls = <<>> /\ NextCall(Deleted(pgn))

SpecDeleted == Init /\ [][Next \/ ReparseDeleted]_vars

\* handlePGNLoaded is called up to MaxCalls times with texts of CallInputs.
InitCalls == Init /\ pgn \in CallInputs

CallAgain ==
  /\ Len(calls) + 1 < MaxCalls
  /\ \E text \in CallInputs : NextCall(text)

SpecCalls == InitCalls /\ [][Next \/ CallAgain]_vars

\* The indices of the ")" met at depth 0 and of the "(" never closed;
\* `open` holds the indices of the "(" that are open at index i.
RECURSIVE StrayParens(_, _, _)
StrayParens(t, i, open) ==
  IF i > Len(t) THEN Range(open)
  ELSE IF t[i] = "(" THEN StrayParens(t, i + 1, Append(open, i))
  ELSE IF t[i] = ")"
       THEN IF open = <<>> THEN {i} \cup StrayParens(t, i + 1, open)
            ELSE StrayParens(t, i + 1, SubSeq(open, 1, Len(open) - 1))
       ELSE StrayParens(t, i + 1, open)

\* The text without its stray parentheses.
Rebalanced(t) ==
  Flatten([i \in 1..Len(t) |->
             IF i \in StrayParens(t, 1, <<>>) THEN <<>> ELSE <<t[i]>>])

\* The second call is given the first text without its stray parentheses.
ReparseRebalanced ==
  /\ calls = <<>>
  /\ Rebalanced(pgn) # pgn
  /\ NextCall(Rebalanced(pgn))

SpecRebalanced == Init /\ [][Next \/ ReparseRebalanced]_vars

(***************************************************************************)
(* extractVariationsFromTree on any tree of legal moves.  A forest is the  *)
(* list of the children of a node, each child given by its own forest.     *)
(* TreeOf gives the Node objects of a forest under the root: the j-th      *)
(* child of a node plays the j-th move of SanOrder that is legal there.    *)
(***************************************************************************)
RECURSIVE Forests(_)
Forests(n) ==
  IF n = 0 THEN {<<>>}
  ELSE UNION {{<<c>> \o rest : c \in Forests(k - 1), rest \in Forests(n - k)}
              : k \in 1..n}

RECURSIVE Narrow(_)
Narrow(f) == Len(f) <= MaxChildren /\ \A i \in 1..Len(f) : Narrow(f[i])

SanOrder == <<"e4", "d4", "c4", "Nf3", "e5", "d5", "c5", "Nc6", "Qh5">>

LegalSans(pos) == SelectSeq(SanOrder, LAMBDA san : Legal(pos, san))

RECURSIVE AddChildren(_, _, _, _, _)
AddChildren(table, parent, pos, f, j) ==
  IF j > Len(f) THEN table
  ELSE LET san == LegalSans(pos)[j]
           id == Len(table) + 1
           pushed == Append([table EXCEPT ![parent].children = Append(@, id)],
                            NewNode(pos, san))
       IN  AddChildren(AddChildren(pushed, id, Play(pos, san), f[j], 1),
                       parent, pos, f, j + 1)

TreeOf(f) == AddChildren(<<NewNode(InitialPos, "")>>, 1, InitialPos, f, 1)

TreesUpTo(max) ==
  {TreeOf(f) : f \in {g \in UNION {Forests(n) : n \in 0..max} : Narrow(g)}}

Trees == TreesUpTo(MaxNodes)

\* The tree is given to extractVariationsFromTree; the module-level counter
\* holds what an earlier invocation left.
InitFlat ==
  /\ nodes \in Trees
  /\ variationCounter \in 0..MaxNodes
  /\ pc = "done"
  /\ pgn = <<>>
  /\ sanitized = <<>>
  /\ ast = <<>>
  /\ stack = <<>>
  /\ origin = <<>>
  /\ lines = <<>>
  /\ err = NoError
  /\ variations = <<>>
  /\ calls = <<>>
  /\ inv = <<>>
  /\ Unmounted

SpecFlat == InitFlat /\ [][FlattenTree]_vars

(***************************************************************************)
(* Two invocations of extractVariationsFromTree that overlap.  Each one    *)
(* sets the module-level counter to 0, pushes its Variations one by one,   *)
(* each with the counter incremented, and returns; the steps of the two    *)
(* are taken in any order.                                                 *)
(***************************************************************************)
Invocations == 1..2

InitOverlap ==
  /\ inv \in [Invocations ->
               [tree : TreesUpTo(MaxOverlapNodes), pc : {"idle"}, k : {0},
                out : {<<>>}]]
  /\ variationCounter = 0
  /\ pc = "done"
  /\ pgn = <<>>
  /\ sanitized = <<>>
  /\ ast = <<>>
  /\ stack = <<>>
  /\ nodes = <<>>
  /\ origin = <<>>
  /\ lines = <<>>
  /\ err = NoError
  /\ variations = <<>>
  /\ calls = <<>>
  /\ Unmounted

OverlapUnchanged ==
  UNCHANGED <<pc, pgn, sanitized, ast, stack, nodes, origin, lines, err,
              variations, calls, ui, scan>>

\* const variations = []; variationCounter = 0
Begin(a) ==
  /\ inv[a].pc = "idle"
  /\ variationCounter' = ResetCounter(variationCounter)
  /\ inv' = [inv EXCEPT ![a].pc = "run"]
  /\ OverlapUnchanged

\* variations.push({ id: `variation-${++variationCounter}`, ... })
Push(a) ==
  /\ inv[a].pc = "run"
  /\ inv[a].k < Len(PushedMoves(inv[a].tree))
  /\ variationCounter' = variationCounter + 1
  /\ inv' = [inv EXCEPT
               ![a].k = @ + 1,
               ![a].out = Append(@, PushedVariation(inv[a].tree, inv[a].k + 1,
                                                    variationCounter + 1))]
  /\ OverlapUnchanged

\* return variations
End(a) ==
  /\ inv[a].pc = "run"
  /\ inv[a].k = Len(PushedMoves(inv[a].tree))
  /\ inv' = [inv EXCEPT ![a].pc = "returned"]
  /\ UNCHANGED variationCounter
  /\ OverlapUnchanged

NextOverlap == \E a \in Invocations : Begin(a) \/ Push(a) \/ End(a)

SpecOverlap == InitOverlap /\ [][NextOverlap]_vars

\* The text with three dots for each run of four or more dots.
ThreeDotForm(t) == CollapseDots(t, 1)

\* The second call is given the three-dot form of the first text.
ReparseThreeDots == calls = <<>> /\ NextCall(ThreeDotForm(pgn))

SpecThreeDots == Init /\ [][Next \/ ReparseThreeDots]_vars

(***************************************************************************)
(* Vocabulary of the properties.                                           *)
(***************************************************************************)
Returned == pc \in {"done", "flat"}

Terminated == pc \in {"done", "flat", "failed"}

Parent(n) == CHOOSE p \in 1..Len(nodes) : n \in Range(nodes[p].children)

ChildMoves(n) == [j \in 1..Len(nodes[n].children) |-> nodes[nodes[n].children[j]].move]

\* The moves on the path from the root to node n.
RECURSIVE PathMoves(_)
PathMoves(n) == IF n = 1 THEN <<>> ELSE Append(PathMoves(Parent(n)), nodes[n].move)

\* The moves replay from pos with none rejected by the validator.
RECURSIVE ReplaysFrom(_, _)
ReplaysFrom(pos, moves) ==
  \/ moves = <<>>
  \/ /\ Legal(pos, Head(moves))
     /\ ReplaysFrom(Play(pos, Head(moves)), Tail(moves))

\* The first node appended by an activation that handles a variation.
IsVariationStart(n) == origin[n].first /\ lines[origin[n].line].after # 0

\* The move the variation started by node n is written after.
VariationOf(n) == lines[origin[n].line].after

\* Recursive-annotation-variation reading of a syntax tree: a variation is
\* an alternative to the move it follows, so it is replayed from the
\* position before that move.  The first move, in the order of the text,
\* that is not legal in the position reached by its predecessors ("" when
\* every move is legal).
RECURSIVE FirstIllegal(_, _), FirstIllegalInVariations(_, _)
FirstIllegal(moves, pos) ==
  IF moves = <<>> THEN ""
  ELSE IF Head(moves).san \in GAME_RESULTS THEN FirstIllegal(Tail(moves), pos)
  ELSE IF ~Legal(pos, Head(moves).san) THEN Head(moves).san
  ELSE IF FirstIllegalInVariations(Head(moves).variations, pos) # ""
       THEN FirstIllegalInVariations(Head(moves).variations, pos)
       ELSE FirstIllegal(Tail(moves), Play(pos, Head(moves).san))

FirstIllegalInVariations(vs, pos) ==
  IF vs = <<>> THEN ""
  ELSE IF FirstIllegal(Head(vs), pos) # "" THEN FirstIllegal(Head(vs), pos)
       ELSE FirstIllegalInVariations(Tail(vs), pos)

\* Every move of the text is legal in that reading.
AllLegal == FirstIllegal(ast, InitialPos) = ""

IsMove(m) == m.san \notin GAME_RESULTS

\* The moves written at nesting depth 0.
DepthZeroMoves(moves) ==
  LET kept == SelectSeq(moves, IsMove)
  IN  [i \in 1..Len(kept) |-> kept[i].san]

IsPrefixSeq(a, b) == Len(a) <= Len(b) /\ SubSeq(b, 1, Len(a)) = a

(***************************************************************************)
(* C1: every node of a returned tree holds a move that is legal in the     *)
(* node's own fen; the fen of the root and of its children is the initial  *)
(* position and the fen of a deeper node is the position after its         *)
(* parent's move; every path from the root replays from the initial        *)
(* position.                                                               *)
(***************************************************************************)
TreeIsLegal ==
  Returned =>
    /\ nodes[1].fen = InitialPos
    /\ \A n \in 2..Len(nodes) :
         /\ Legal(nodes[n].fen, nodes[n].move)
         /\ nodes[n].fen = (IF Parent(n) = 1 THEN InitialPos
                            ELSE Play(nodes[Parent(n)].fen, nodes[Parent(n)].move))
         /\ ReplaysFrom(InitialPos, PathMoves(n))

\* A tree with a variation nested in a variation has been returned.
TreeIsLegalWitness ==
  /\ pc = "done"
  /\ \E n \in 2..Len(nodes) : IsVariationStart(n) /\ lines[origin[n].line].depth >= 2
  /\ \E n \in 1..Len(nodes) : Len(nodes[n].children) >= 2

(***************************************************************************)
(* C2: in a text of legal moves, the first move of a variation that        *)
(* follows a move M is attached                                            *)
(* as a child of the node M departed from (a sibling of M); for the text   *)
(* of the test "separates variations" the root has the children e4, d4     *)
(* and the e4 node the children c5, e5.                                    *)
(***************************************************************************)
VariationIsSibling ==
  /\ AllLegal =>
       \A n \in 2..Len(nodes) :
         IsVariationStart(n) => Parent(n) = Parent(VariationOf(n))
  /\ (pgn = ExSeparates /\ Terminated) =>
       /\ Returned
       /\ ChildMoves(1) = <<"e4", "d4">>
       /\ ChildMoves(nodes[1].children[1]) = <<"c5", "e5">>

(***************************************************************************)
(* C3: in the tree returned for a text of legal moves, children[0] of      *)
(* every node with children is the                                        *)
(* next move of the same line, and every further child starts a variation. *)
(***************************************************************************)
FirstChildIsMainLine ==
  (Returned /\ AllLegal) =>
    \A n \in 1..Len(nodes) :
      nodes[n].children # <<>> =>
        LET c == nodes[n].children
        IN  /\ origin[c[1]].line = (IF n = 1 THEN 1 ELSE origin[n].line)
            /\ ~IsVariationStart(c[1])
            /\ \A j \in 2..Len(c) : IsVariationStart(c[j])

(***************************************************************************)
(* C4: parseGame throws its illegal-move error exactly when some move is   *)
(* not legal in the position reached by replaying its predecessors, and    *)
(* the error names the first such move of the text.                        *)
(***************************************************************************)
ThrowsExactlyOnFirstIllegal ==
  /\ Returned => FirstIllegal(ast, InitialPos) = ""
  /\ (pc = "failed" /\ err.kind = "illegal") =>
       err.san = FirstIllegal(ast, InitialPos)
  /\ (pgn = ExIllegal /\ Terminated) => err = [kind |-> "illegal", san |-> "Qxe4"]

(***************************************************************************)
(* C5: for a text whose moves are all legal, the children[0] chain of the  *)
(* returned tree is the sequence of the moves written at depth 0.          *)
(***************************************************************************)
MainLineIsDepthZero ==
  (Returned /\ AllLegal) =>
    extractMainLine(nodes, 1) = DepthZeroMoves(ast)

(***************************************************************************)
(* C6: every Variation returned by extractVariationsFromTree replays from  *)
(* the initial position with no move rejected.                             *)
(***************************************************************************)
VariationsReplay ==
  pc = "flat" =>
    \A k \in 1..Len(variations) : ReplaysFrom(InitialPos, variations[k].moves)

\* A tree with side variations has been flattened.
VariationsReplayWitness ==
  /\ pc = "flat"
  /\ Len(variations) >= 2
  /\ \E k \in 1..Len(variations) :
       ~variations[k].mainline /\ Len(variations[k].moves) >= 2

(***************************************************************************)
(* C7: in a text of legal moves, a variation opened inside a variation is  *)
(* attached to the node from                                               *)
(* which the move just played in the enclosing variation departed.         *)
(***************************************************************************)
NestedAttachesToInnerBranchPoint ==
  AllLegal =>
    \A n \in 2..Len(nodes) :
      (IsVariationStart(n) /\ lines[origin[n].line].depth >= 2) =>
        Parent(n) = Parent(VariationOf(n))

(***************************************************************************)
(* C8: in the tree returned for a text of legal moves, the node a move     *)
(* with k variations departs from                                          *)
(* has exactly k+1 children: that move, then the first moves of its        *)
(* variations in the order of the text.                                    *)
(***************************************************************************)
BranchPointHasKPlusOne ==
  (Returned /\ AllLegal) =>
    \A m \in 2..Len(nodes) :
      ~IsVariationStart(m) =>
        LET c == nodes[Parent(m)].children
        IN  /\ Len(c) = origin[m].nvars + 1
            /\ c[1] = m
            /\ \A j \in 2..Len(c) : IsVariationStart(c[j]) /\ VariationOf(c[j]) = m
            /\ \A j, k \in 2..Len(c) : j < k => origin[c[j]].line < origin[c[k]].line

(***************************************************************************)
(* Texts with one "{" and no "}": Before is the text in front of the "{",  *)
(* Inside the text behind it.                                              *)
(***************************************************************************)
OpenAt == IndexOf(pgn, 1, "{")

Before == Slice(pgn, 1, OpenAt - 1)

Inside == Slice(pgn, OpenAt + 1, Len(pgn))

OneUnterminatedComment ==
  /\ OpenAt # 0
  /\ IndexOf(pgn, 1, "}") = 0
  /\ IndexOf(pgn, OpenAt + 1, "{") = 0

\* The text is a non-empty sequence of legal moves, with no variation and
\* no result marker.
IsLegalLine(t) ==
  LET r == parsePGN(cleanPgn(t))
  IN  /\ r.kind = "games"
      /\ \A i \in 1..Len(r.moves) : IsMove(r.moves[i]) /\ r.moves[i].variations = <<>>
      /\ FirstIllegal(r.moves, InitialPos) = ""

MovesBefore == DepthZeroMoves(parsePGN(cleanPgn(Before)).moves)

\* The first move-number token inside the comment (<<>> when none).
TokenAt == MoveNumberAt(Inside, 1)

Token == IF TokenAt = 0 THEN <<>> ELSE Slice(Inside, TokenAt, MoveNumberEnd(Inside, TokenAt))

Normalised(t) == Trim(ShrinkSpaces(CollapseDots(t, 1), 1))

(***************************************************************************)
(* C9: parseGame does not throw on a line of legal moves         *)
(* followed by an unterminated comment, and the moves in front of the "{"  *)
(* start the main line; for the text of the test the first move is e4.     *)
(***************************************************************************)
UnterminatedCommentNeverThrows ==
  (OneUnterminatedComment /\ IsLegalLine(Before) /\ Terminated) =>
    /\ Returned
    /\ IsPrefixSeq(MovesBefore, extractMainLine(nodes, 1))
    /\ pgn = ExBroken => extractMainLine(nodes, 1)[1] = "e4"

(***************************************************************************)
(* C10: for a "{" with no "}", cleanPgn keeps the text in front of the     *)
(* "{" and nothing else when the comment holds no move-number token;       *)
(* otherwise the text in front of the "{" is followed by that very token.  *)
(***************************************************************************)
KeepsMoveNumberToken ==
  (pc # "start" /\ OneUnterminatedComment) =>
    IF TokenAt = 0
    THEN sanitized = Normalised(Before)
    ELSE IsPrefixSeq(Normalised(Before \o Token), sanitized)

(***************************************************************************)
(* C11 as stated: the sanitised text holds no "{" and no "$" followed by   *)
(* a digit, for every input, and parseGame gives the same on a text and    *)
(* on that text with its balanced comments and NAGs deleted.               *)
(***************************************************************************)
HasBrace(t) == \E i \in 1..Len(t) : t[i] = "{"

HasNag(t) == \E i \in 1..(Len(t) - 1) : t[i] = "$" /\ t[i + 1] \in Digit

\* Both calls have ended: the text, then the text without comments and NAGs.
BothParsed == Len(calls) = 1 /\ pc \in {"failed", "flat"}

SameAsDeleted == BothParsed => calls[1].outcome = Outcome

SanitizedHasNoCommentNoNag ==
  /\ pc # "start" => ~HasBrace(sanitized) /\ ~HasNag(sanitized)
  /\ SameAsDeleted

(***************************************************************************)
(* C11 amended: the sanitised text holds no "{" for every input, and no    *)
(* "$" followed by a digit for every input in which each "$" begins a NAG; *)
(* parseGame gives the same on a text and on that text with its balanced   *)
(* comments and NAGs deleted.                                              *)
(***************************************************************************)
EveryDollarIsNag(t) ==
  \A i \in 1..Len(t) : t[i] = "$" => i < Len(t) /\ t[i + 1] \in Digit

StripsCommentsAndNags ==
  /\ pc # "start" =>
        /\ ~HasBrace(sanitized)
        /\ EveryDollarIsNag(pgn) => ~HasNag(sanitized)
  /\ SameAsDeleted

\* The study game, whose comment holds parentheses and NAGs, gave the four
\* moves of its main line in both calls.
StripsCommentsAndNagsWitness ==
  /\ BothParsed
  /\ calls[1].pgn = ExStudy
  /\ pgn # ExStudy
  /\ pc = "flat"
  /\ Len(variations) = 1
  /\ variations[1].moves = <<"e4", "e5", "Nf3", "Nc6">>

(***************************************************************************)
(* C12: the sanitised text never holds four dots in a row, cleanPgn        *)
(* applied to it gives it back, and parseGame gives the same on a text     *)
(* and on its three-dot form.                                              *)
(***************************************************************************)
HasFourDots(t) ==
  \E i \in 1..(Len(t) - 3) : \A k \in 0..3 : t[i + k] = "."

NoFourDots == pc # "start" => ~HasFourDots(sanitized)

Idempotent == pc # "start" => cleanPgn(sanitized) = sanitized

SameAsThreeDotForm == BothParsed => calls[1].outcome = Outcome

CollapsesDotRuns == NoFourDots /\ Idempotent /\ SameAsThreeDotForm

(***************************************************************************)
(* C13: when the text holds no move at nesting depth 0, parseGame throws   *)
(* the error of an empty game and returns no tree; a root that parseGame   *)
(* returns has at least one child.                                         *)
(***************************************************************************)
NoPlayableContent ==
  \/ parsePGN(sanitized).kind = "nogame"
  \/ /\ parsePGN(sanitized).kind = "games"
     /\ DepthZeroMoves(parsePGN(sanitized).moves) = <<>>

EmptyGameIsSignalled ==
  /\ (Terminated /\ NoPlayableContent) =>
        pc = "failed" /\ err.kind = "nogame"
  /\ Returned => nodes[1].children # <<>>

(***************************************************************************)
(* C14: two calls on the same text, whatever was parsed in between, give   *)
(* the same error or deep-equal trees, and the lists flattened from        *)
(* deep-equal trees are equal.                                             *)
(***************************************************************************)
\* The calls that have ended, the current one included.
Finished ==
  calls \o (IF pc \in {"failed", "flat"}
            THEN <<[pgn |-> pgn, outcome |-> Outcome]>> ELSE <<>>)

GaveTree(c) == c.outcome.err = NoError

ParsingIsDeterministic ==
  \A i, j \in 1..Len(Finished) :
    /\ Finished[i].pgn = Finished[j].pgn =>
          Finished[i].outcome = Finished[j].outcome
    /\ ( /\ GaveTree(Finished[i])
         /\ GaveTree(Finished[j])
         /\ Finished[i].outcome.nodes = Finished[j].outcome.nodes ) =>
          Finished[i].outcome.variations = Finished[j].outcome.variations

\* A text with a side line was parsed, then the same game written with
\* move numbers, then the first text again: three deep-equal trees.
ParsingIsDeterministicWitness ==
  /\ Len(Finished) = 3
  /\ Finished[1].pgn = ExSideLine
  /\ Finished[2].pgn = ExNumbered
  /\ Finished[3].pgn = ExSideLine
  /\ Finished[1].outcome.nodes = Finished[2].outcome.nodes
  /\ Len(Finished[3].outcome.variations) = 2

(***************************************************************************)
(* Vocabulary of the flattener's properties, on the tree `nodes`.          *)
(***************************************************************************)
\* The leaf reached from node n by following children[0].
RECURSIVE FirstLeaf(_)
FirstLeaf(n) ==
  IF nodes[n].children = <<>> THEN n ELSE FirstLeaf(nodes[n].children[1])

\* The nodes from n to FirstLeaf(n).
RECURSIVE FirstChain(_)
FirstChain(n) ==
  <<n>> \o (IF nodes[n].children = <<>> THEN <<>>
            ELSE FirstChain(nodes[n].children[1]))

\* The non-main children of the nodes of the sequence ms, in order.
NonMainChildren(ms) ==
  Flatten([i \in 1..Len(ms) |->
             IF nodes[ms[i]].children = <<>> THEN <<>>
             ELSE Tail(nodes[ms[i]].children)])

Leaves == {n \in 1..Len(nodes) : nodes[n].children = <<>>}

MainId == <<"main">>

(***************************************************************************)
(* C16: for a tree with at least one move, the first Variation returned    *)
(* is the main line: its id is "main", it alone is flagged main line, and  *)
(* its moves are those on the path from the root to the leaf reached by    *)
(* following children[0].                                                  *)
(***************************************************************************)
FirstIsMainLine ==
  (pc = "flat" /\ Len(nodes) > 1) =>
    /\ variations # <<>>
    /\ variations[1].id = MainId
    /\ \A k \in 1..Len(variations) : variations[k].mainline <=> k = 1
    /\ variations[1].moves = PathMoves(FirstLeaf(1))

(***************************************************************************)
(* C17: after the main line the list holds, for each node of the main      *)
(* line from the root to the leaf and for each of its non-main children    *)
(* from left to right, exactly one Variation: the moves of the main line   *)
(* up to that node, the move of the child, and the children[0] chain       *)
(* below the child.                                                        *)
(***************************************************************************)
SideStarts == NonMainChildren(FirstChain(1))

SideLinesFollowMainLine ==
  (pc = "flat" /\ Len(nodes) > 1) =>
    /\ Len(variations) = 1 + Len(SideStarts)
    /\ \A k \in 1..Len(SideStarts) :
         variations[k + 1].moves = PathMoves(FirstLeaf(SideStarts[k]))

\* A flattened tree with side lines at two nodes of the main line, one of
\* them longer than one move.
SideLinesFollowMainLineWitness ==
  /\ pc = "flat"
  /\ \E j, k \in 1..Len(SideStarts) :
       /\ j < k
       /\ Parent(SideStarts[j]) # Parent(SideStarts[k])
       /\ Len(variations[j + 1].moves) # Len(variations[k + 1].moves)
  /\ \E k \in 1..Len(SideStarts) : nodes[SideStarts[k]].children # <<>>

(***************************************************************************)
(* C18: the list holds the lines of the tree depth-first: a line, then     *)
(* for each node of it and each non-main child of that node the line of    *)
(* the child with all that is nested in it, before the next child.  Every  *)
(* non-main child of every node has its Variation, and there are as many   *)
(* Variations as leaves.                                                   *)
(***************************************************************************)
\* The leaves of the lines in depth-first order, from the line of node n.
RECURSIVE DepthFirst(_)
DepthFirst(n) ==
  <<FirstLeaf(n)>>
    \o Flatten([i \in 1..Len(NonMainChildren(FirstChain(n))) |->
                  DepthFirst(NonMainChildren(FirstChain(n))[i])])

NestedLinesAreFlattened ==
  (pc = "flat" /\ Len(nodes) > 1) =>
    /\ Len(variations) = Cardinality(Leaves)
    /\ Len(variations) = Len(DepthFirst(1))
    /\ \A k \in 1..Len(variations) :
         variations[k].moves = PathMoves(DepthFirst(1)[k])

(***************************************************************************)
(* C15: the counter of ids and names belongs to one invocation, so the     *)
(* module holds no state that an invocation writes, and an invocation      *)
(* that overlaps with another returns the ids and names it returns alone.  *)
(***************************************************************************)
\* What the invocation a returns when nothing runs in between.
Alone(a) == extractVariationsFromTree(inv[a].tree, 0)

FlattenerSharesNoState ==
  /\ variationCounter = 0
  /\ \A a \in DOMAIN inv : inv[a].pc = "returned" => inv[a].out = Alone(a)

(***************************************************************************)
(* PGNParser (pgnParser.ts), the parser behind the upload component.  It   *)
(* never replays a move: a move is the characters its pattern matched.     *)
(***************************************************************************)
\* The depth of nested parseVariation calls at which the engine throws
\* RangeError (maximum call stack size exceeded).
StackLimit == 3

\* replace(/\[[^\]]*\]/g, "")
RECURSIVE StripHeaders(_, _)
StripHeaders(t, i) ==
  IF i > Len(t) THEN <<>>
  ELSE IF t[i] = "[" /\ IndexOf(t, i + 1, "]") # 0
       THEN StripHeaders(t, IndexOf(t, i + 1, "]") + 1)
       ELSE <<t[i]>> \o StripHeaders(t, i + 1)

\* replace(/\[%[^\]]*\]/g, "")
RECURSIVE StripAnnotations(_, _)
StripAnnotations(t, i) ==
  IF i > Len(t) THEN <<>>
  ELSE IF /\ IsPrefixAt(t, i, <<"[", "%">>)
          /\ IndexOf(t, i + 2, "]") # 0
       THEN StripAnnotations(t, IndexOf(t, i + 2, "]") + 1)
       ELSE <<t[i]>> \o StripAnnotations(t, i + 1)

\* The result markers the text ends with, whitespace aside.
ResultsAtEnd(t) ==
  {r \in GAME_RESULTS :
     /\ Len(Chars(r)) <= Len(TrimEnd(t))
     /\ IsPrefixAt(TrimEnd(t), Len(TrimEnd(t)) - Len(Chars(r)) + 1, Chars(r))}

\* replace(/\s*(1-0|0-1|1\/2-1\/2|\*)\s*$/, ""): the leftmost match is the
\* longest marker the text ends with, and the whitespace around it.
StripResult(t) ==
  IF ResultsAtEnd(t) = {} THEN t
  ELSE LET r == CHOOSE x \in ResultsAtEnd(t) :
                  \A y \in ResultsAtEnd(t) : Len(Chars(y)) <= Len(Chars(x))
       IN  TrimEnd(Slice(t, 1, Len(TrimEnd(t)) - Len(Chars(r))))

cleanPGNForParsing(raw) ==
  LET s1 == StripComments(StripHeaders(raw, 1), 1)
      s2 == StripResult(StripAnnotations(s1, 1))
  IN  Trim(ShrinkSpaces(s2, 1))

Pieces == {"N", "B", "R", "Q", "K"}

Files == {"a", "b", "c", "d", "e", "f", "g", "h"}

Ranks == {"1", "2", "3", "4", "5", "6", "7", "8"}

\* One character of the class cs at an index of S: the indices after it.
Ends(t, S, cs) == {p + 1 : p \in {q \in S : q <= Len(t) /\ t[q] \in cs}}

\* The same for an optional part, which may also be skipped.
OptEnds(t, S, cs) ==
  UNION {IF p <= Len(t) /\ t[p] \in cs THEN {p, p + 1} ELSE {p} : p \in S}

\* [NBRQK]?[a-h]?[1-8]?x?[a-h][1-8] at i: the indices after each way to
\* match it.
CoreEnds(t, i) ==
  Ends(t,
       Ends(t,
            OptEnds(t,
                    OptEnds(t, OptEnds(t, OptEnds(t, {i}, Pieces), Files),
                            Ranks),
                    {"x"}),
            Files),
       Ranks)

\* The largest index of S (0 for the empty set).
LongestEnd(S) == CHOOSE m \in S \cup {0} : \A n \in S : n <= m

\* A greedy optional part: the ends with the part when there are any.
Prefer(with, without) == IF with # {} THEN with ELSE without

\* (?:=[NBRQK])?[+#]? after a core that ends before index c.
SuffixEnds(t, c) ==
  Prefer(Ends(t,
              Prefer(Ends(t, Ends(t, {c}, {"="}), Pieces), {c}),
              {"+", "#"}),
         Prefer(Ends(t, Ends(t, {c}, {"="}), Pieces), {c}))

\* (?:O-O-O|O-O|[NBRQK]?[a-h]?[1-8]?x?[a-h][1-8](?:=[NBRQK])?[+#]?) at i:
\* the index after the match, 0 when there is none.  The four classes of
\* the optional parts are disjoint, so of two ways to match the core the
\* one a backtracking matcher tries first (it takes an optional part
\* before it skips it) is the longer one.
SanEnd(t, i) ==
  IF IsPrefixAt(t, i, <<"O", "-", "O", "-", "O">>) THEN i + 5
  ELSE IF IsPrefixAt(t, i, <<"O", "-", "O">>) THEN i + 3
  ELSE LongestEnd(UNION {SuffixEnds(t, c) :
                           c \in {LongestEnd(CoreEnds(t, i))} \ {0}})

\* (\d+\.{1,3}\s*) at i: the index after the match, 0 when there is none.
MoveNumberPrefixEnd(t, i) ==
  LET d    == SkipSet(t, i, Digit)
      dots == SkipSet(t, d, {"."}) - d
  IN  IF d = i \/ dots = 0 THEN 0
      ELSE SkipWs(t, d + (IF dots > 3 THEN 3 ELSE dots))

\* text.slice(i).match(/^(\d+\.{1,3}\s*)?(SAN)/): where group 2 starts and
\* the index after the match (0, 0 when there is none).
MoveMatch(t, i) ==
  LET numbered == {m \in {[from |-> p, to |-> SanEnd(t, p)] :
                             p \in {MoveNumberPrefixEnd(t, i)} \ {0}} :
                     m.to # 0}
      plain    == {m \in {[from |-> p, to |-> SanEnd(t, p)] : p \in {i}} :
                     m.to # 0}
  IN  IF numbered # {} THEN CHOOSE m \in numbered : TRUE
      ELSE IF plain # {} THEN CHOOSE m \in plain : TRUE
      ELSE [from |-> 0, to |-> 0]

RECURSIVE tokenizePGN(_, _)
tokenizePGN(t, i) ==
  IF i > Len(t) THEN <<>>
  ELSE IF t[i] = "("
       THEN <<[type |-> "open", value |-> <<"(">>, position |-> i - 1]>>
              \o tokenizePGN(t, i + 1)
  ELSE IF t[i] = ")"
       THEN <<[type |-> "close", value |-> <<")">>, position |-> i - 1]>>
              \o tokenizePGN(t, i + 1)
  ELSE IF t[i] = " " THEN tokenizePGN(t, i + 1)
  ELSE IF MoveMatch(t, i).to # 0
       THEN <<[type |-> "move",
               value |-> Slice(t, MoveMatch(t, i).from, MoveMatch(t, i).to - 1),
               position |-> i - 1]>>
              \o tokenizePGN(t, MoveMatch(t, i).to)
  ELSE tokenizePGN(t, i + 1)

\* parseVariation from token i on, with the moves and sub-variations
\* collected so far; it returns at the first "close" or at the end.
RECURSIVE parseVariation(_, _, _, _)
parseVariation(tokens, i, moves, subVariations) ==
  IF i > Len(tokens)
  THEN [moves |-> moves, subVariations |-> subVariations, endIndex |-> i]
  ELSE IF tokens[i].type = "move"
       THEN parseVariation(tokens, i + 1, Append(moves, tokens[i].value),
                           subVariations)
  ELSE IF tokens[i].type = "open"
       THEN LET subResult == parseVariation(tokens, i + 1, <<>>, <<>>)
            IN  parseVariation(tokens, subResult.endIndex, moves,
                  Append(subVariations,
                         [startIndex |-> Len(moves),
                          moves |-> subResult.moves,
                          subVariations |-> subResult.subVariations]))
  ELSE [moves |-> moves, subVariations |-> subVariations, endIndex |-> i + 1]

\* parseTokens from token i on.
RECURSIVE parseTokens(_, _, _, _)
parseTokens(tokens, i, mainLine, vs) ==
  IF i > Len(tokens) THEN [mainLine |-> mainLine, variations |-> vs]
  ELSE IF tokens[i].type = "move"
       THEN parseTokens(tokens, i + 1, Append(mainLine, tokens[i].value), vs)
  ELSE IF tokens[i].type = "open"
       THEN LET variationResult == parseVariation(tokens, i + 1, <<>>, <<>>)
            IN  parseTokens(tokens, variationResult.endIndex, mainLine,
                  Append(vs,
                         [startIndex |-> Len(mainLine),
                          moves |-> variationResult.moves,
                          subVariations |-> variationResult.subVariations]))
  ELSE parseTokens(tokens, i + 1, mainLine, vs)

\* The deepest nesting of parseVariation calls over the tokens from i on,
\* `depth` calls being active at i.
RECURSIVE CallDepth(_, _, _)
CallDepth(tokens, i, depth) ==
  IF i > Len(tokens) THEN depth
  ELSE IF tokens[i].type = "open"
       THEN LET rest == CallDepth(tokens, i + 1, depth + 1)
            IN  IF rest > depth + 1 THEN rest ELSE depth + 1
  ELSE IF tokens[i].type = "close" /\ depth > 0
       THEN LET rest == CallDepth(tokens, i + 1, depth - 1)
            IN  IF rest > depth THEN rest ELSE depth
  ELSE CallDepth(tokens, i + 1, depth)

\* currentPath.join('-')
RECURSIVE JoinPath(_)
JoinPath(path) ==
  IF Len(path) <= 1 THEN Flatten(path)
  ELSE Head(path) \o <<"-">> \o JoinPath(Tail(path))

generateVariationName(moves, index) ==
  IF moves = <<>> THEN VariationName(index)
  ELSE <<index, ". ", Slice(moves, 1, IF Len(moves) > 3 THEN 3 ELSE Len(moves)),
         IF Len(moves) > 3 THEN "..." ELSE "">>

\* The Variation pushed for the main line (pgnParser.ts:189-194).
MainVariation(moves) ==
  [id |-> MainId, name |-> <<"Main Line">>, moves |-> moves,
   mainline |-> TRUE]

\* The Variation pushed by the fallback (pgnParser.ts:44-50).
ManualVariation(manualMoves) ==
  [id |-> MainId, name |-> <<"Main Line">>, moves |-> manualMoves,
   mainline |-> TRUE]

RECURSIVE flattenVariations(_, _, _)
flattenVariations(parentMoves, vs, currentPath) ==
  (IF currentPath = <<>> THEN <<MainVariation(parentMoves)>> ELSE <<>>)
    \o Flatten([index \in 1..Len(vs) |->
         LET completeMoves ==
               Slice(parentMoves, 1, vs[index].startIndex) \o vs[index].moves
         IN  <<[id |-> IF currentPath = <<>> THEN VariationId(index)
                       ELSE JoinPath(currentPath) \o <<"-", index>>,
                name |-> generateVariationName(vs[index].moves, index),
                moves |-> completeMoves,
                mainline |-> FALSE]>>
               \o (IF vs[index].subVariations # <<>>
                   THEN flattenVariations(completeMoves,
                          vs[index].subVariations,
                          Append(currentPath, VariationId(index)))
                   ELSE <<>>)])

\* The index of the ")" that closes the "(" at i with no parenthesis in
\* between (0 when there is none): a match of /\([^()]*\)/ at i.
InnermostClose(t, i) ==
  LET j == SkipSet(t, i + 1, {c \in Range(t) : c \notin {"(", ")"}})
  IN  IF t[i] = "(" /\ j <= Len(t) /\ t[j] = ")" THEN j ELSE 0

\* gameText.replace(/\([^()]*\)/g, "")
RECURSIVE StripInnermost(_, _)
StripInnermost(t, i) ==
  IF i > Len(t) THEN <<>>
  ELSE IF InnermostClose(t, i) # 0
       THEN StripInnermost(t, InnermostClose(t, i) + 1)
       ELSE <<t[i]>> \o StripInnermost(t, i + 1)

\* while (/\([^()]*\)/.test(gameText)) gameText = gameText.replace(...)
RECURSIVE RemoveVariations(_)
RemoveVariations(t) ==
  IF \E i \in 1..Len(t) : InnermostClose(t, i) # 0
  THEN RemoveVariations(StripInnermost(t, 1))
  ELSE t

\* movePattern /\d+\.?\s*(SAN)\s*(SAN)?/ at p: the two captures and the
\* index after the match (to = 0 when there is no match at p).
ManualMatch(t, p) ==
  LET d  == SkipSet(t, p, Digit)
      s1 == SkipWs(t, IF d <= Len(t) /\ t[d] = "." THEN d + 1 ELSE d)
      e1 == SanEnd(t, s1)
      s2 == SkipWs(t, e1)
      e2 == SanEnd(t, s2)
  IN  IF d = p \/ e1 = 0 THEN [first |-> <<>>, second |-> <<>>, to |-> 0]
      ELSE IF e2 = 0
           THEN [first |-> <<Slice(t, s1, e1 - 1)>>, second |-> <<>>,
                 to |-> s2]
      ELSE [first |-> <<Slice(t, s1, e1 - 1)>>,
            second |-> <<Slice(t, s2, e2 - 1)>>, to |-> e2]

\* Where movePattern.exec finds its match when lastIndex is i - 1 (0 when
\* it returns null).
RECURSIVE ExecIndex(_, _)
ExecIndex(t, i) ==
  IF i > Len(t) THEN 0
  ELSE IF ManualMatch(t, i).to # 0 THEN i ELSE ExecIndex(t, i + 1)

\* while ((match = movePattern.exec(gameText)) !== null) moves.push(...),
\* lastIndex being i - 1.
RECURSIVE extractMovesManually(_, _)
extractMovesManually(gameText, i) ==
  IF ExecIndex(gameText, i) = 0 THEN <<>>
  ELSE ManualMatch(gameText, ExecIndex(gameText, i)).first
         \o ManualMatch(gameText, ExecIndex(gameText, i)).second
         \o extractMovesManually(gameText,
                                 ManualMatch(gameText, ExecIndex(gameText, i)).to)

\* gameText of extractMovesManually: the text without headers, comments,
\* variations and result marker.
ManualGameText(raw) ==
  StripResult(RemoveVariations(StripComments(StripHeaders(raw, 1), 1)))

\* A text whose variations nest n deep, closed or left open.
DeepText(n, closed) ==
  Text(<<"1.", "e4", " ">>) \o [i \in 1..n |-> "("] \o Text(<<"d4">>)
    \o (IF closed THEN [i \in 1..n |-> ")"] ELSE <<>>)

DeepInputs == {DeepText(n, c) : n \in 1..(StackLimit + 1), c \in BOOLEAN}

LegacyInputs == Inputs \cup DeepInputs

InitLegacy ==
  /\ pgn \in LegacyInputs
  /\ pc = "start"
  /\ sanitized = <<>>
  /\ ast = <<>>
  /\ stack = <<>>
  /\ nodes = <<>>
  /\ origin = <<>>
  /\ lines = <<>>
  /\ err = NoError
  /\ variations = <<>>
  /\ variationCounter = 0
  /\ calls = <<>>
  /\ inv = <<>>
  /\ Unmounted

\* parseVariation recurses deeper than the stack allows.
RangeErrorThrown(tokens) == CallDepth(tokens, 1, 0) > StackLimit

\* The try block of parsePGN(text) runs to its end with vs in `variations`.
TryBlock(text, vs) ==
  \E cleanedPgn \in {cleanPGNForParsing(text)} :
    \E tokens \in {tokenizePGN(cleanedPgn, 1)} :
      /\ ~RangeErrorThrown(tokens)
      /\ \E parsedVariations \in {parseTokens(tokens, 1, <<>>, <<>>)} :
           vs = flattenVariations(parsedVariations.mainLine,
                                  parsedVariations.variations, <<>>)

\* The try block of parsePGN(text) throws, and the catch block leaves vs
\* in `variations`.
CatchBlock(text, vs) ==
  /\ \E cleanedPgn \in {cleanPGNForParsing(text)} :
       \E tokens \in {tokenizePGN(cleanedPgn, 1)} : RangeErrorThrown(tokens)
  /\ \E gameText \in {ManualGameText(text)} :
       \E manualMoves \in {extractMovesManually(gameText, 1)} :
         vs = IF manualMoves # <<>>
              THEN <<ManualVariation(manualMoves)>>
              ELSE <<>>

\* PGNParser.parsePGN, the try block ran to its end.
PGNParserParsed ==
  /\ pc = "start"
  /\ TryBlock(pgn, variations')
  /\ pc' = "parsed"
  /\ UNCHANGED <<pgn, sanitized, ast, stack, nodes, origin, lines, err,
                 variationCounter, calls, inv, ui, scan>>

\* PGNParser.parsePGN, the catch block: best-effort extraction.
PGNParserFellBack ==
  /\ pc = "start"
  /\ CatchBlock(pgn, variations')
  /\ pc' = "fellback"
  /\ UNCHANGED <<pgn, sanitized, ast, stack, nodes, origin, lines, err,
                 variationCounter, calls, inv, ui, scan>>

SpecLegacy == InitLegacy /\ [][PGNParserParsed \/ PGNParserFellBack]_vars

(***************************************************************************)
(* C19: a text with a ")" at depth 0 or a "(" that is never closed is      *)
(* parsed as the text without these parentheses is: no error is thrown     *)
(* for them, and the moves around them build the same tree.                *)
(***************************************************************************)
NoCommentNoNag(t) == \A i \in 1..Len(t) : t[i] \notin {"{", "}", "$"}

StrayParensAreIgnored ==
  (BothParsed /\ NoCommentNoNag(calls[1].pgn)) => calls[1].outcome = Outcome

(***************************************************************************)
(* C20: what PGNParser.parsePGN returns from its fallback can be told      *)
(* apart from what it returns from the parse proper: no text that is       *)
(* parsed without an exception gives the list of Variations that the       *)
(* best-effort extraction gave.                                            *)
(***************************************************************************)
ReturnedByParse(vs) == \E text \in LegacyInputs : TryBlock(text, vs)

FallbackIsTagged == pc = "fellback" => ~ReturnedByParse(variations)

(***************************************************************************)
(* parseGame on a movetext and then on the same movetext followed by a     *)
(* result marker.                                                          *)
(***************************************************************************)
WithResult(t, r) == t \o <<" ">> \o Chars(r)

\* The second call is given the first text, which ends with no result
\* marker, followed by one.
ReparseWithResult ==
  /\ calls = <<>>
  /\ ResultsAtEnd(pgn) = {}
  /\ \E r \in GAME_RESULTS : NextCall(WithResult(pgn, r))

SpecResult == Init /\ [][Next \/ ReparseWithResult]_vars

(***************************************************************************)
(* C21: when parseGame returns a tree for a movetext, it returns the same  *)
(* tree, and throws nothing, for the movetext followed by a result         *)
(* marker; and no node of a tree has a result marker as its move.          *)
(***************************************************************************)
ResultMarkerIsDiscarded ==
  /\ \A n \in 1..Len(nodes) : nodes[n].move \notin GAME_RESULTS
  /\ (BothParsed /\ GaveTree(calls[1])) =>
        /\ err = NoError
        /\ nodes = calls[1].outcome.nodes

ResultMarkerIsDiscardedWitness ==
  /\ BothParsed
  /\ calls[1].pgn = ExSideLine
  /\ pgn = WithResult(ExSideLine, "1/2-1/2")
  /\ GaveTree(calls[1])
  /\ Len(nodes) > 3
  /\ nodes = calls[1].outcome.nodes

(***************************************************************************)
(* createTrainingPositions (treeToVariations.ts) on a Variation of legal   *)
(* moves, as the flattener produces them.  A fen is the position record.   *)
(***************************************************************************)
\* The longest Variation given to createTrainingPositions.
MaxPlies == 4

Undefined == "undefined"

Colours == {"white", "black"}

\* The pipeline variables keep the values of an idle pipeline.
PipelineIdle ==
  /\ pgn = <<>>
  /\ sanitized = <<>>
  /\ ast = <<>>
  /\ stack = <<>>
  /\ nodes = <<>>
  /\ origin = <<>>
  /\ lines = <<>>
  /\ err = NoError
  /\ variations = <<>>
  /\ variationCounter = 0
  /\ calls = <<>>
  /\ inv = <<>>

pipeline == <<pgn, sanitized, ast, stack, nodes, origin, lines, err,
              variations, variationCounter, calls, inv>>

\* The loop of calculateFenAtMove from index i on: chess.move throws on a
\* move that cannot be played, and the loop is left.
RECURSIVE ReplayFrom(_, _, _, _)
ReplayFrom(pos, moves, i, moveIndex) ==
  IF i >= moveIndex THEN pos
  ELSE IF i < Len(moves) /\ Legal(pos, moves[i + 1])
       THEN ReplayFrom(Play(pos, moves[i + 1]), moves, i + 1, moveIndex)
       ELSE pos

\* The slip of replaying the move at moveIndex as well.
FenAfterMove(moves, moveIndex) ==
  ReplayFrom(InitialPos, moves, 0, moveIndex + 1)

calculateFenAtMove(moves, moveIndex) ==
  ReplayFrom(InitialPos, moves, 0, moveIndex)

\* `Move ${Math.floor(i / 2) + 1}: Play ${moveToMake}`
Description(i, moveToMake) == <<"Move ", (i \div 2) + 1, ": Play ", moveToMake>>

\* The loop of createTrainingPositions from index i on.
RECURSIVE PositionsFrom(_, _, _)
PositionsFrom(v, colour, i) ==
  IF i >= Len(v.moves) THEN <<>>
  ELSE (IF (colour = "white") = (i % 2 = 0)
        THEN <<[fen |-> calculateFenAtMove(v.moves, i),
                moveToMake |-> v.moves[i + 1],
                responseMove |-> IF i + 1 < Len(v.moves)
                                 THEN v.moves[i + 2] ELSE Undefined,
                description |-> Description(i, v.moves[i + 1])]>>
        ELSE <<>>)
         \o PositionsFrom(v, colour, i + 1)

createTrainingPositions(v, colour) == PositionsFrom(v, colour, 0)

\* The lines of at most n legal moves from a position.
RECURSIVE LinesFrom(_, _)
LinesFrom(pos, n) ==
  {<<>>} \cup
    (IF n = 0 THEN {}
     ELSE UNION {{<<san>> \o l : l \in LinesFrom(Play(pos, san), n - 1)} :
                   san \in {x \in AllSans : Legal(pos, x)}})

TrainingVariations ==
  {[id |-> VariationId(1), name |-> <<"Main Line">>, moves |-> l,
    mainline |-> TRUE] : l \in LinesFrom(InitialPos, MaxPlies)}

InitPositions ==
  /\ pc = "call"
  /\ PipelineIdle
  /\ variation \in TrainingVariations
  /\ userColor \in Colours
  /\ positions = <<>>
  /\ training = <<>>
  /\ page = <<>>
  /\ scan = <<>>

CreatePositions ==
  /\ pc = "call"
  /\ positions' = createTrainingPositions(variation, userColor)
  /\ pc' = "returned"
  /\ UNCHANGED <<pipeline, variation, userColor, training, page, scan>>

SpecPositions == InitPositions /\ [][CreatePositions]_vars

(***************************************************************************)
(* C22: createTrainingPositions returns, in increasing order of i, one     *)
(* entry for each index i of the colour's parity and nothing else; the     *)
(* entry holds moves[i], moves[i+1] (or nothing for the last index) and    *)
(* the position after moves[0..i-1], where the user is to move.            *)
(***************************************************************************)
UserPlies(moves, colour) ==
  {i \in 0..(Len(moves) - 1) : (i % 2 = 0) = (colour = "white")}

RECURSIVE PositionAfter(_)
PositionAfter(moves) ==
  IF moves = <<>> THEN InitialPos
  ELSE Play(PositionAfter(SubSeq(moves, 1, Len(moves) - 1)),
            moves[Len(moves)])

\* The index of the k-th move of the colour.
PlyOf(k, colour) == 2 * (k - 1) + (IF colour = "white" THEN 0 ELSE 1)

TrainingPositionsAreUserMoves ==
  pc = "returned" =>
    /\ Len(positions) = Cardinality(UserPlies(variation.moves, userColor))
    /\ \A k \in 1..Len(positions) :
         LET i == PlyOf(k, userColor)
         IN  /\ i \in UserPlies(variation.moves, userColor)
             /\ positions[k].moveToMake = variation.moves[i + 1]
             /\ positions[k].responseMove =
                  (IF i = Len(variation.moves) - 1 THEN Undefined
                   ELSE variation.moves[i + 2])
             /\ positions[k].fen =
                  PositionAfter(SubSeq(variation.moves, 1, i))
             /\ positions[k].fen.turn =
                  (IF userColor = "white" THEN "w" ELSE "b")

TrainingPositionsWitness ==
  /\ pc = "returned"
  /\ userColor = "black"
  /\ variation.moves = <<"e4", "e5", "Nf3", "Nc6">>
  /\ Len(positions) = 2
  /\ positions[1].responseMove = "Nf3"
  /\ positions[2].responseMove = Undefined
  /\ positions[2].fen = PositionAfter(<<"e4", "e5", "Nf3">>)

(***************************************************************************)
(* C23: a move that is not the first of its level, whether or not          *)
(* variations were processed before it, is validated against the position  *)
(* reached after the move that precedes it on its level (no move of a      *)
(* variation has touched that board) and is appended under that move's     *)
(* node, exactly as when no variation stands between the two.              *)
(***************************************************************************)
\* The node made from the preceding move of the same level.
PrevOnLine(n) ==
  CHOOSE p \in 1..(n - 1) :
    /\ origin[p].line = origin[n].line
    /\ \A q \in (p + 1)..(n - 1) : origin[q].line # origin[n].line

VariationLeavesLevelUntouched ==
  \A n \in 2..Len(nodes) :
    ~origin[n].first =>
      /\ Parent(n) = PrevOnLine(n)
      /\ nodes[n].fen =
           Play(nodes[PrevOnLine(n)].fen, nodes[PrevOnLine(n)].move)

VariationLeavesLevelUntouchedWitness ==
  /\ pc = "done"
  /\ pgn = ExSideLine
  /\ \E n \in 2..Len(nodes) :
       /\ ~origin[n].first
       /\ nodes[n].move = "Nc6"
       /\ nodes[PrevOnLine(n)].move = "Nf3"
       /\ origin[PrevOnLine(n)].nvars = 1
       /\ \E q \in (PrevOnLine(n) + 1)..(n - 1) : nodes[q].move = "d4"

(***************************************************************************)
(* C24: a depth guard keeps the nested activations of parseVariation       *)
(* under a fixed bound for every input, so that their number never         *)
(* exceeds what the call stack allows: no input drives the recursion       *)
(* into the engine's RangeError.                                           *)
(***************************************************************************)
\* The deepest nesting of parseVariation activations a finished call of
\* PGNParser.parsePGN has asked for.
ActivationDepth ==
  IF pc = "start" THEN 0
  ELSE CallDepth(tokenizePGN(cleanPGNForParsing(pgn), 1), 1, 0)

NestingDepthIsGuarded == ActivationDepth <= StackLimit

(***************************************************************************)
(* The loop of PGNParser.tokenizePGN, one action per branch of its body.   *)
(* scan.i is the index i of the code (from 0), the text is pgn.            *)
(***************************************************************************)
InitTokenize ==
  /\ pc = "tokenize"
  /\ pgn \in LegacyInputs
  /\ scan = [i |-> 0, tokens |-> <<>>]
  /\ sanitized = <<>>
  /\ ast = <<>>
  /\ stack = <<>>
  /\ nodes = <<>>
  /\ origin = <<>>
  /\ lines = <<>>
  /\ err = NoError
  /\ variations = <<>>
  /\ variationCounter = 0
  /\ calls = <<>>
  /\ inv = <<>>
  /\ variation = <<>>
  /\ userColor = ""
  /\ positions = <<>>
  /\ training = <<>>
  /\ page = <<>>

InLoop == pc = "tokenize" /\ scan.i < Len(pgn)

TokenizeUnchanged == UNCHANGED <<pc, pipeline, ui>>

\* The slip of leaving i where it is when nothing matches.
SkipNone(i) == i

\* i++
SkipOne(i) == i + 1

\* text[i] === '(' : push an open token, i++
OpenToken ==
  /\ InLoop
  /\ pgn[scan.i + 1] = "("
  /\ scan' = [i |-> scan.i + 1,
              tokens |-> Append(scan.tokens,
                                [type |-> "open", value |-> <<"(">>,
                                 position |-> scan.i])]
  /\ TokenizeUnchanged

\* text[i] === ')' : push a close token, i++
CloseToken ==
  /\ InLoop
  /\ pgn[scan.i + 1] = ")"
  /\ scan' = [i |-> scan.i + 1,
              tokens |-> Append(scan.tokens,
                                [type |-> "close", value |-> <<")">>,
                                 position |-> scan.i])]
  /\ TokenizeUnchanged

\* text[i] === ' ' : i++
SkipSpace ==
  /\ InLoop
  /\ pgn[scan.i + 1] = " "
  /\ scan' = [scan EXCEPT !.i = SkipOne(scan.i)]
  /\ TokenizeUnchanged

\* moveMatch: push a move token, i += moveMatch[0].length
MoveToken ==
  /\ InLoop
  /\ pgn[scan.i + 1] \notin {"(", ")", " "}
  /\ \E moveMatch \in {MoveMatch(pgn, scan.i + 1)} :
       /\ moveMatch.to # 0
       /\ scan' = [i |-> moveMatch.to - 1,
                   tokens |-> Append(scan.tokens,
                                [type |-> "move",
                                 value |-> Slice(pgn, moveMatch.from,
                                                 moveMatch.to - 1),
                                 position |-> scan.i])]
  /\ TokenizeUnchanged

\* no moveMatch: i++
SkipChar ==
  /\ InLoop
  /\ pgn[scan.i + 1] \notin {"(", ")", " "}
  /\ MoveMatch(pgn, scan.i + 1).to = 0
  /\ scan' = [scan EXCEPT !.i = SkipOne(scan.i)]
  /\ TokenizeUnchanged

\* return tokens
TokenizeReturn ==
  /\ pc = "tokenize"
  /\ scan.i >= Len(pgn)
  /\ pc' = "tokenized"
  /\ UNCHANGED <<pipeline, ui, scan>>

NextTokenize ==
  \/ OpenToken
  \/ CloseToken
  \/ SkipSpace
  \/ MoveToken
  \/ SkipChar
  \/ TokenizeReturn

SpecTokenize == InitTokenize /\ [][NextTokenize]_vars

\* The loop runs to its end: nothing suspends a synchronous call.
SpecTokenizeFair == SpecTokenize /\ WF_<<pc, scan>>(NextTokenize)

(***************************************************************************)
(* C25: tokenizePGN returns on every text.  Each pass of its loop either   *)
(* adds one token, whose position is the index it was found at, and moves  *)
(* the index past the matched text, or adds nothing and moves the index    *)
(* by one; so the index strictly increases and the positions of the        *)
(* tokens are strictly increasing.                                         *)
(***************************************************************************)
EmitsAndAdvances ==
  /\ Len(scan'.tokens) = Len(scan.tokens) + 1
  /\ SubSeq(scan'.tokens, 1, Len(scan.tokens)) = scan.tokens
  /\ scan'.tokens[Len(scan'.tokens)].position = scan.i
  /\ LET value == scan'.tokens[Len(scan'.tokens)].value
     IN  /\ scan'.i >= scan.i + Len(value)
         /\ SubSeq(pgn, scan'.i - Len(value) + 1, scan'.i) = value

SkipsOneCharacter == scan'.tokens = scan.tokens /\ scan'.i = scan.i + 1

PositionsIncrease ==
  \A j, k \in 1..Len(scan.tokens) :
    j < k => scan.tokens[j].position < scan.tokens[k].position

TokenizerTerminates ==
  /\ [][/\ scan'.i > scan.i
        /\ scan'.i <= Len(pgn)
        /\ EmitsAndAdvances \/ SkipsOneCharacter]_scan
  /\ []PositionsIncrease
  /\ <>(pc = "tokenized")

TokenizerTerminatesWitness ==
  /\ pc = "tokenized"
  /\ pgn = ExNumbered
  /\ scan.i = Len(pgn)
  /\ Len(scan.tokens) = 8
  /\ scan.tokens = tokenizePGN(pgn, 1)

(***************************************************************************)
(* The TrainingMode component (components/TrainingMode.tsx), mounted by    *)
(* the Index page with a variation, a colour and the positions that        *)
(* createTrainingPositions makes of them.  training holds the state of     *)
(* the component: its useState cells, the one Chess object, the timers     *)
(* that setTimeout has set and that have not run yet, in the order in      *)
(* which they come due, the number of calls of onExit, and whether the     *)
(* displayed position is one the user made by a move in view mode          *)
(* (explored).  An action is one handler or one timer callback together    *)
(* with the render and the effect that follow it.                          *)
(***************************************************************************)
\* The most timers pending at a time.
MaxTimers == 2

Null == "null"

\* The lines shown in the component: the first moves of one game.
TrainingLine == <<"e4", "e5", "Nf3", "Nc6">>

\* The moves the user tries on the board.
BoardSans == {"e4", "e5", "Nf3", "Nc6", "d4", "d5"}

MountedVariations ==
  {[id |-> VariationId(1), name |-> <<"Main Line">>,
    moves |-> SubSeq(TrainingLine, 1, n), mainline |-> TRUE] :
     n \in 1..Len(TrainingLine)}

\* for (i = 0; i < currentMoveIndex && i < variation.moves.length; i++)
\* tempChess.move(variation.moves[i]), left at the first invalid move.
ViewPosition(moves, currentMoveIndex) ==
  ReplayFrom(InitialPos, moves, 0, currentMoveIndex)

\* No move has been marked as the user's last.
NotPlayed == [index |-> -1, exits |-> 0]

\* The state after the first render and its effect.
Mounted ==
  [mounted |-> TRUE,
   currentMoveIndex |-> 0,
   chess |-> InitialPos,
   gamePosition |-> InitialPos,
   isTrainingMode |-> FALSE,
   waitingForResponse |-> FALSE,
   moveStatus |-> Null,
   currentPositionIndex |-> 0,
   timers |-> <<>>,
   exits |-> 0,
   explored |-> FALSE,
   played |-> NotPlayed]

InitTraining ==
  /\ pc = "mounted"
  /\ PipelineIdle
  /\ variation \in MountedVariations
  /\ userColor \in Colours
  /\ positions = createTrainingPositions(variation, userColor)
  /\ training = Mounted
  /\ page = <<>>
  /\ scan = <<>>

\* positions[index] is an object (and not undefined).
HasPosition(index) == index + 1 \in DOMAIN positions

\* const currentPosition = positions[currentPositionIndex], as the
\* dependency list compares it: by identity, here the index of the object
\* in positions, and -1 for undefined.
currentPosition(tr) ==
  IF HasPosition(tr.currentPositionIndex) THEN tr.currentPositionIndex
  ELSE -1

\* The body of the effect.
Effect(tr) ==
  IF ~tr.isTrainingMode
  THEN [tr EXCEPT !.chess = ViewPosition(variation.moves,
                                         tr.currentMoveIndex),
                  !.gamePosition = ViewPosition(variation.moves,
                                                tr.currentMoveIndex),
                  !.explored = FALSE]
  ELSE IF HasPosition(tr.currentPositionIndex)
       THEN [tr EXCEPT !.chess = positions[tr.currentPositionIndex + 1].fen,
                       !.gamePosition =
                          positions[tr.currentPositionIndex + 1].fen,
                       !.explored = FALSE,
                       !.waitingForResponse = FALSE,
                       !.moveStatus = Null]
       ELSE tr

\* [currentMoveIndex, isTrainingMode, currentPosition, chess,
\*  variation.moves]: the last two never change.
Deps(tr) == <<tr.currentMoveIndex, tr.isTrainingMode, currentPosition(tr)>>

\* The render after a handler has taken the state from old to new: the
\* effect runs when a dependency has changed.  The setters of a component
\* that is no longer mounted do nothing; what the handler did to the Chess
\* object, the timers and onExit remains.
Render(old, new) ==
  IF ~old.mounted
  THEN [old EXCEPT !.chess = new.chess, !.timers = new.timers,
                   !.exits = new.exits]
  ELSE IF Deps(new) # Deps(old) THEN Effect(new) ELSE new

\* The delay of the timers of each kind, in milliseconds.
Delay(kind) ==
  CASE kind = "response" -> 1000
    [] kind = "advance" -> 800
    [] kind = "exit" -> 1500
    [] kind = "revert" -> 2000

\* The places in the queue where a timer set now can come due: after
\* every pending timer whose delay is not longer than its own, since that
\* one was set earlier.  When the user acts decides the rest.
Slots(timers, kind) ==
  {k \in 1..(Len(timers) + 1) :
     \A j \in k..Len(timers) : Delay(timers[j].kind) > Delay(kind)}

\* setTimeout: the callback keeps the currentPositionIndex (and with it
\* the currentPosition) of the render that made it.
SetTimeout(timers, k, kind, index) ==
  SubSeq(timers, 1, k - 1) \o <<[kind |-> kind, index |-> index]>>
    \o SubSeq(timers, k, Len(timers))

\* The user is at the component and has not played the last move they
\* mean to play.
UserActs == training.mounted /\ training.played = NotPlayed

TrainingUnchanged ==
  UNCHANGED <<pc, pipeline, variation, userColor, positions, page, scan>>

\* if (currentMoveIndex > 0)
CanGoBack(index) == index > 0

\* The slip of letting the index go one past the last move.
CanGoPast(index, length) == index <= length

\* if (currentMoveIndex < variation.moves.length)
CanGoNext(index, length) == index < length

goToPreviousMove ==
  /\ UserActs
  /\ ~training.isTrainingMode
  /\ training' =
       Render(training,
              IF CanGoBack(training.currentMoveIndex)
              THEN [training EXCEPT !.currentMoveIndex = @ - 1]
              ELSE training)
  /\ TrainingUnchanged

goToNextMove ==
  /\ UserActs
  /\ ~training.isTrainingMode
  /\ training' =
       Render(training,
              IF CanGoNext(training.currentMoveIndex, Len(variation.moves))
              THEN [training EXCEPT !.currentMoveIndex = @ + 1]
              ELSE training)
  /\ TrainingUnchanged

startTraining ==
  /\ UserActs
  /\ ~training.isTrainingMode
  /\ training' = Render(training,
                        [training EXCEPT !.isTrainingMode = TRUE,
                                         !.currentPositionIndex = 0])
  /\ TrainingUnchanged

exitTraining ==
  /\ UserActs
  /\ training.isTrainingMode
  /\ training' = Render(training,
                        [training EXCEPT !.isTrainingMode = FALSE,
                                         !.currentMoveIndex = 0,
                                         !.moveStatus = Null])
  /\ TrainingUnchanged

\* The Reset Position button is shown in training mode when there is a
\* currentPosition.
resetPosition ==
  /\ UserActs
  /\ training.isTrainingMode
  /\ HasPosition(training.currentPositionIndex)
  /\ training' =
       Render(training,
              [training EXCEPT
                 !.chess = positions[training.currentPositionIndex + 1].fen,
                 !.gamePosition =
                    positions[training.currentPositionIndex + 1].fen,
                 !.explored = FALSE,
                 !.waitingForResponse = FALSE,
                 !.moveStatus = Null])
  /\ TrainingUnchanged

\* onMove in view mode: a legal move on a copy of the displayed position.
\* The model follows one such move from a position, not a second one.
ExploreMove ==
  /\ UserActs
  /\ ~training.isTrainingMode
  /\ ~training.explored
  /\ \E san \in BoardSans :
       /\ Legal(training.gamePosition, san)
       /\ training' =
            Render(training,
                   [training EXCEPT
                      !.gamePosition = Play(training.gamePosition, san),
                      !.explored = TRUE])
  /\ TrainingUnchanged

\* move.san === expectedMove || move.lan === expectedMove: the moves of a
\* variation are in standard notation, which no long notation equals.
IsCorrect(san, index) == san = positions[index + 1].moveToMake

\* handleMove on a legal move (chess.move throws on any other, and false
\* is returned): refused while waitingForResponse or without a
\* currentPosition.  last tells whether the user leaves it at this move.
handleMove ==
  /\ UserActs
  /\ training.isTrainingMode
  /\ Len(training.timers) < MaxTimers
  /\ \E san \in BoardSans, last \in BOOLEAN :
       /\ Legal(training.chess, san)
       /\ \/ /\ training.waitingForResponse
                \/ ~HasPosition(training.currentPositionIndex)
             /\ ~last
             /\ training' = training
          \/ /\ ~training.waitingForResponse
             /\ HasPosition(training.currentPositionIndex)
             /\ IsCorrect(san, training.currentPositionIndex)
             /\ \E k \in Slots(training.timers, "response") :
                  training' =
                    Render(training,
                           [training EXCEPT
                              !.chess = Play(training.chess, san),
                              !.gamePosition = Play(training.chess, san),
                              !.explored = FALSE,
                              !.moveStatus = "correct",
                              !.waitingForResponse = TRUE,
                              !.timers =
                                 SetTimeout(@, k, "response",
                                            training.currentPositionIndex),
                              !.played =
                                 IF last
                                 THEN [index |->
                                         training.currentPositionIndex,
                                       exits |-> training.exits]
                                 ELSE NotPlayed])
          \/ /\ ~training.waitingForResponse
             /\ HasPosition(training.currentPositionIndex)
             /\ ~IsCorrect(san, training.currentPositionIndex)
             /\ ~last
             /\ \E k \in Slots(training.timers, "revert") :
                  training' =
                    Render(training,
                           [training EXCEPT
                              !.chess = Play(training.chess, san),
                              !.gamePosition = Play(training.chess, san),
                              !.explored = FALSE,
                              !.moveStatus = "incorrect",
                              !.timers =
                                 SetTimeout(@, k, "revert",
                                            training.currentPositionIndex)])
  /\ TrainingUnchanged

\* The Back to Variations button calls onExit, and the page takes the
\* component away.
onExit(tr) == [tr EXCEPT !.exits = @ + 1, !.mounted = FALSE]

Back ==
  /\ UserActs
  /\ training' = Render(training, onExit(training))
  /\ TrainingUnchanged

\* The timer that comes due.
Due == training.timers[1]

\* The callback of 1000 ms: the reply is played on the Chess object as it
\* is by then (chess.move throws when it cannot be played there), and the
\* timer of 800 ms is set.
ResponseTimer ==
  /\ training.timers # <<>>
  /\ Due.kind = "response"
  /\ \E k \in Slots(Tail(training.timers), "advance") :
       training' =
         Render(training,
                [training EXCEPT
                   !.chess =
                      IF /\ positions[Due.index + 1].responseMove # Undefined
                         /\ Legal(@, positions[Due.index + 1].responseMove)
                      THEN Play(@, positions[Due.index + 1].responseMove)
                      ELSE @,
                   !.gamePosition =
                      IF /\ positions[Due.index + 1].responseMove # Undefined
                         /\ Legal(training.chess,
                                  positions[Due.index + 1].responseMove)
                      THEN Play(training.chess,
                                positions[Due.index + 1].responseMove)
                      ELSE @,
                   !.explored =
                      IF /\ positions[Due.index + 1].responseMove # Undefined
                         /\ Legal(training.chess,
                                  positions[Due.index + 1].responseMove)
                      THEN FALSE
                      ELSE @,
                   !.timers = SetTimeout(Tail(@), k, "advance", Due.index)])
  /\ TrainingUnchanged

\* The callback of 800 ms: currentPositionIndex is the one of the render
\* that made the callback, prev the one of now.
AdvanceTimer ==
  /\ training.timers # <<>>
  /\ Due.kind = "advance"
  /\ \/ /\ Due.index < Len(positions) - 1
        /\ training' =
             Render(training,
                    [training EXCEPT !.currentPositionIndex = @ + 1,
                                     !.timers = Tail(@)])
     \/ /\ ~(Due.index < Len(positions) - 1)
        /\ \E k \in Slots(Tail(training.timers), "exit") :
             training' =
               Render(training,
                      [training EXCEPT
                         !.timers = SetTimeout(Tail(@), k, "exit",
                                               Due.index)])
  /\ TrainingUnchanged

\* setTimeout(onExit, 1500)
ExitTimer ==
  /\ training.timers # <<>>
  /\ Due.kind = "exit"
  /\ training' = Render(training,
                        onExit([training EXCEPT !.timers = Tail(@)]))
  /\ TrainingUnchanged

\* The callback of 2000 ms after an incorrect move.
RevertTimer ==
  /\ training.timers # <<>>
  /\ Due.kind = "revert"
  /\ training' =
       Render(training,
              [training EXCEPT
                 !.chess = positions[Due.index + 1].fen,
                 !.gamePosition = positions[Due.index + 1].fen,
                 !.explored = FALSE,
                 !.moveStatus = Null,
                 !.timers = Tail(@)])
  /\ TrainingUnchanged

TimerFires == ResponseTimer \/ AdvanceTimer \/ ExitTimer \/ RevertTimer

NextTraining ==
  \/ goToPreviousMove
  \/ goToNextMove
  \/ startTraining
  \/ exitTraining
  \/ resetPosition
  \/ ExploreMove
  \/ handleMove
  \/ Back
  \/ ResponseTimer
  \/ AdvanceTimer
  \/ ExitTimer
  \/ RevertTimer

SpecTraining == InitTraining /\ [][NextTraining]_vars

\* A timer that is due runs: the event loop is never blocked for good.
\* Every callback takes its timer off the queue.
SpecTrainingFair == SpecTraining /\ WF_(training.timers)(TimerFires)

(***************************************************************************)
(* C26: whatever the user does and whenever the timers come due,           *)
(* currentPositionIndex is an index of positions, and the callback that    *)
(* follows a correct move leaves it at most one above the index the move   *)
(* was played at: a position is not advanced twice, nor past the last.     *)
(***************************************************************************)
IndexInPositions ==
  positions # <<>> =>
    training.currentPositionIndex \in 0..(Len(positions) - 1)

PositionAdvancesOnce ==
  /\ []IndexInPositions
  /\ [][AdvanceTimer =>
          training'.currentPositionIndex <= Due.index + 1]_vars

(***************************************************************************)
(* C27: in view mode a timer that comes due changes neither the displayed  *)
(* position nor currentPositionIndex nor moveStatus and does not lead to   *)
(* a call of onExit; the displayed position is the replay of the first     *)
(* currentMoveIndex moves, as long as the user has played no move on the   *)
(* board in view mode.                                                     *)
(***************************************************************************)
ViewShowsReplay ==
  (training.mounted /\ ~training.isTrainingMode /\ ~training.explored)
    => training.gamePosition =
         ViewPosition(variation.moves, training.currentMoveIndex)

LateTimersAreInert ==
  /\ [][(TimerFires /\ training.mounted /\ ~training.isTrainingMode) =>
          /\ training'.gamePosition = training.gamePosition
          /\ training'.currentPositionIndex = training.currentPositionIndex
          /\ training'.moveStatus = training.moveStatus
          /\ training'.exits = training.exits
          /\ \A j \in 1..Len(training'.timers) :
               training'.timers[j].kind # "exit"]_vars
  /\ []ViewShowsReplay

(***************************************************************************)
(* C28: when the user has played the expected move of position i and does  *)
(* nothing more, currentPositionIndex becomes i + 1 if i is not the last   *)
(* position, and onExit is called once and not twice if it is; a move      *)
(* made while waitingForResponse changes nothing; no step of an incorrect  *)
(* move, its timer included, changes currentPositionIndex.                 *)
(***************************************************************************)
PlayedLast ==
  training.played # NotPlayed /\ training.played.index = Len(positions) - 1

PlayedInner ==
  training.played # NotPlayed /\ training.played.index < Len(positions) - 1

ExpectedMoveAdvances ==
  /\ (PlayedInner
        /\ training.currentPositionIndex = training.played.index) ~>
       training.currentPositionIndex = training.played.index + 1
  /\ (PlayedLast /\ training.exits = training.played.exits) ~>
       training.exits = training.played.exits + 1
  /\ [](PlayedLast => training.exits <= training.played.exits + 1)
  /\ [][(handleMove /\ training.waitingForResponse) =>
          training' = training]_vars
  /\ [][(handleMove \/ RevertTimer) =>
          training'.currentPositionIndex =
            training.currentPositionIndex]_vars

(***************************************************************************)
(* C29: currentMoveIndex is between 0 and the number of moves of the       *)
(* variation; goToPreviousMove at 0 and goToNextMove at the number of      *)
(* moves change nothing; exitTraining sets currentMoveIndex to 0.          *)
(***************************************************************************)
MoveIndexInRange ==
  training.currentMoveIndex \in 0..Len(variation.moves)

ViewIndexStaysInRange ==
  /\ []MoveIndexInRange
  /\ [][(goToPreviousMove /\ training.currentMoveIndex = 0) =>
          training' = training]_vars
  /\ [][(goToNextMove
           /\ training.currentMoveIndex = Len(variation.moves)) =>
          training' = training]_vars
  /\ [][exitTraining => training'.currentMoveIndex = 0]_vars

\* View mode again after a training in which a reply was pending, and
\* stepped forward to the last move of the variation.
ViewIndexStaysInRangeWitness ==
  /\ training.mounted
  /\ ~training.isTrainingMode
  /\ training.waitingForResponse
  /\ Len(variation.moves) >= 3
  /\ training.currentMoveIndex = Len(variation.moves)
  /\ training.gamePosition = PositionAfter(variation.moves)

(***************************************************************************)
(* The Index page.  page holds its four useState cells, the file reads of  *)
(* the PGNUploader that have not finished (reads), the name argument of    *)
(* the running handlePGNLoaded, the number of calls of handlePGNLoaded     *)
(* begun (loads) and the arguments of the last handleStartTraining that    *)
(* found its variation (requested).  handlePGNLoaded runs parseGame and    *)
(* extractVariationsFromTree as the pipeline above, step by step; nothing  *)
(* else runs before it has returned.                                       *)
(***************************************************************************)
\* The most calls of handlePGNLoaded.
MaxLoads == 2

\* The deck names given: none, or one.
DeckNames == {<<>>, <<"Openings">>}

\* setCurrentTraining(null) is the empty sequence, an object a sequence of it.
InitialPage ==
  [mode |-> "upload",
   variations |-> <<>>,
   deckName |-> <<>>,
   currentTraining |-> <<>>,
   reads |-> <<>>,
   name |-> <<>>,
   loads |-> 0,
   requested |-> <<>>]

InitPage ==
  /\ pc = "idle"
  /\ PipelineIdle
  /\ variation = <<>>
  /\ userColor = ""
  /\ positions = <<>>
  /\ training = <<>>
  /\ page = InitialPage
  /\ scan = <<>>

PageUnchanged == UNCHANGED <<variation, userColor, positions, training, scan>>

\* handlePGNLoaded(text, name) is entered: parseGame starts on text.
BeginLoad(text, name, reads) ==
  /\ pgn' = text
  /\ pc' = "start"
  /\ sanitized' = <<>>
  /\ ast' = <<>>
  /\ stack' = <<>>
  /\ nodes' = <<>>
  /\ origin' = <<>>
  /\ lines' = <<>>
  /\ err' = NoError
  /\ variations' = <<>>
  /\ page' = [page EXCEPT !.name = name, !.loads = @ + 1, !.reads = reads]
  /\ UNCHANGED <<variationCounter, calls, inv>>
  /\ PageUnchanged

\* handleLoadPGN and handleLoadSample of the PGNUploader, which the page
\* shows in mode 'upload': onPGNLoaded is called at once.
handleLoadPGN ==
  /\ pc = "idle"
  /\ page.mode = "upload"
  /\ page.loads + Len(page.reads) < MaxLoads
  /\ \E text \in CallInputs, name \in DeckNames :
       BeginLoad(text, name, page.reads)

\* handleFileUpload: reader.readAsText(file) returns at once, and
\* onPGNLoaded is called by reader.onload.
handleFileUpload ==
  /\ pc = "idle"
  /\ page.mode = "upload"
  /\ page.loads + Len(page.reads) < MaxLoads
  /\ \E text \in CallInputs, name \in DeckNames :
       page' = [page EXCEPT !.reads = Append(@, [pgn |-> text,
                                                  name |-> name])]
  /\ UNCHANGED <<pc, pipeline>>
  /\ PageUnchanged

\* reader.onload of a read that has finished, whatever the page shows by
\* then.
ReaderOnload ==
  /\ pc = "idle"
  /\ page.reads # <<>>
  /\ BeginLoad(page.reads[1].pgn, page.reads[1].name, Tail(page.reads))

\* name || 'Untitled Deck'
DeckNameOr(name) == IF name = <<>> THEN <<"Untitled Deck">> ELSE name

\* handlePGNLoaded after parseGame and extractVariationsFromTree: the catch
\* block, the return on an empty list, or the three setters.
handlePGNLoaded ==
  /\ pc \in {"failed", "flat"}
  /\ page' = IF pc = "failed" \/ variations = <<>>
             THEN page
             ELSE [page EXCEPT !.variations = variations,
                               !.deckName = DeckNameOr(page.name),
                               !.mode = "variations"]
  /\ pc' = "idle"
  /\ UNCHANGED pipeline
  /\ PageUnchanged

\* variations.find(v => v.id === variationId): its index, 0 for undefined.
FindVariation(vs, variationId) ==
  IF \E i \in 1..Len(vs) : vs[i].id = variationId
  THEN CHOOSE i \in 1..Len(vs) :
         /\ vs[i].id = variationId
         /\ \A j \in 1..(i - 1) : vs[j].id # variationId
  ELSE 0

\* The buttons of the VariationCards, which the page shows in mode
\* 'variations', call handleStartTraining with the id of their variation.
handleStartTraining ==
  /\ pc = "idle"
  /\ page.mode = "variations"
  /\ \E k \in 1..Len(page.variations), colour \in Colours :
       \E found \in {FindVariation(page.variations, page.variations[k].id)} :
         page' =
           IF found = 0 THEN page
           ELSE [page EXCEPT
                   !.currentTraining =
                      <<[variation |-> page.variations[found],
                         positions |->
                           createTrainingPositions(page.variations[found],
                                                   colour),
                         userColor |-> colour]>>,
                   !.requested = <<page.variations[k].id, colour>>,
                   !.mode = "training"]
  /\ UNCHANGED <<pc, pipeline>>
  /\ PageUnchanged

\* onExit of a TrainingMode: its Back button, or a timer it left behind.
handleExitTraining ==
  /\ pc = "idle"
  /\ page.mode # "upload"
  /\ page' = [page EXCEPT !.currentTraining = <<>>, !.mode = "variations"]
  /\ UNCHANGED <<pc, pipeline>>
  /\ PageUnchanged

NextPage ==
  \/ handleLoadPGN
  \/ handleFileUpload
  \/ ReaderOnload
  \/ Next
  \/ handlePGNLoaded
  \/ handleStartTraining
  \/ handleExitTraining

SpecPage == InitPage /\ [][NextPage]_vars

(***************************************************************************)
(* C30: handlePGNLoaded leaves mode, variations and deckName as they are   *)
(* when parseGame throws or the list is empty, and otherwise sets mode     *)
(* 'variations' and a list that is not empty; in every state mode is       *)
(* 'training' exactly when currentTraining is not null, and then           *)
(* currentTraining.variation is a variation of the list with the id that   *)
(* was asked for.                                                          *)
(***************************************************************************)
LoadKeepsOrSwitches ==
  handlePGNLoaded =>
    IF pc = "failed" \/ variations = <<>>
    THEN /\ page'.mode = page.mode
         /\ page'.variations = page.variations
         /\ page'.deckName = page.deckName
    ELSE /\ page'.mode = "variations"
         /\ page'.variations # <<>>

TrainingIffCurrent ==
  (page.mode = "training") <=> (page.currentTraining # <<>>)

CurrentIsRequested ==
  page.currentTraining # <<>> =>
    /\ page.currentTraining[1].variation.id = page.requested[1]
    /\ \E i \in 1..Len(page.variations) :
         page.variations[i] = page.currentTraining[1].variation

PageModeIsConsistent ==
  /\ [][LoadKeepsOrSwitches]_vars
  /\ [](pc = "idle" => TrainingIffCurrent)
  /\ [](pc = "idle" => CurrentIsRequested)

====
